---- MODULE Spec2Model ----
(***************************************************************************)
(* Model of the client-side logic of biz-tracker-mobile: the new-sale form *)
(* (NewSale), the edit-purchase form (EditPurchase), the edit-item form    *)
(* (EditInventoryItem), the list screens (SalesList, PurchasesList,        *)
(* InventoryList) and the detail screens (SaleDetail, PurchaseDetail,      *)
(* InventoryDetail).  One screen is mounted in a behaviour.                *)
(*                                                                         *)
(* JavaScript numbers are modelled as exact rationals [n, d] in lowest     *)
(* terms, with NaN as the extra value [n |-> 0, d |-> 0]; IEEE rounding is *)
(* not modelled.  Text typed into an input is a sequence of one-character  *)
(* strings, and parseFloat / parseInt / Number.toString work on it         *)
(* character by character.                                                 *)
(*                                                                         *)
(* React: a handler's setState calls are one step.  A useEffect whose      *)
(* dependencies changed in that step is then due (a "...Due" flag), and it *)
(* runs as a step of its own; React flushes due effects before it handles  *)
(* the next event, so handlers are guarded by "no effect is due".          *)
(***************************************************************************)
EXTENDS Integers, Sequences, FiniteSets, TLC

VARIABLES
    screen,             \* which screen is mounted
    \* ---- NewSale component state ----
    nsFormData,         \* useState<Partial<Sale>>
    nsAvailableItems,   \* useState<Item[]>
    nsSelectedItem,     \* useState<Item | null>
    nsSelectedQuantity, \* useState<string>
    nsLoading,
    nsSaving,
    nsError,
    nsTotalsDue,        \* the recalculate-totals effect has to run
    nsCall,             \* the salesApi.create calls in flight (the documents sent)
    nsRoute,            \* "new" while the form is mounted, "/sales" after router.replace
    \* ---- EditPurchase component state ----
    epId,               \* the route parameter id (None when it is missing)
    epFormData,         \* useState<Partial<Purchase>>
    epAvailableItems,
    epSelectedItem,
    epQuantity,         \* useState<string>
    epWeight,           \* useState<string>
    epWeightUnit,
    epCostPerUnit,      \* useState<string>
    epTotalCost,        \* useState<string>
    epLoading,
    epSaving,
    epError,
    epFetch,            \* the fetch effect: "due", "pending" (request in flight) or "done"
    epTotalsDue,        \* the recalculate-totals effect has to run
    epCostDue,          \* the total-cost effect has to run
    epCall,             \* the purchasesApi.update calls in flight (the documents sent)
    epRoute,            \* "edit" while the form is shown, "/purchases" after router.push
    \* ---- EditInventoryItem component state ----
    eiId,               \* the route parameter id (None when it is missing)
    eiFormData,         \* useState<Omit<Item, '_id'>>
    eiImageUri,
    eiCategories,
    eiAllTags,
    eiNewTag,
    eiLoading,
    eiSaving,
    eiError,
    eiFetch,            \* fetchData: "due", "returned" (no id), "pending", "resolved" or "rejected"
    eiCall,             \* the itemsApi.update calls in flight
    eiRoute,            \* "edit" while the form is shown, "/inventory/id" after router.replace
    \* ---- SalesList / PurchasesList / InventoryList component state ----
    lsDocs,             \* sales / purchases / items: the full list
    lsFiltered,         \* filteredSales / filteredPurchases / filteredItems: the list shown
    lsSearchQuery,
    lsLoading,
    lsError,
    lsFilterDue,        \* the filter effect has to run
    lsAlert,            \* the id the confirmation dialog of handleDelete asks about, or None
    lsAnswer,           \* the button the last confirmation dialog was closed with, or None
    lsCalls,            \* the ids of the delete calls in flight
    \* ---- SaleDetail / PurchaseDetail / InventoryDetail component state ----
    dtId,               \* the route parameter id (None when it is missing)
    dtDoc,              \* sale / purchase / item
    dtLoading,
    dtError,
    dtFetch,            \* the fetch: "due", "returned" (no id), "pending" or "done"
    dtAlert,            \* the confirmation dialog of handleDelete is open
    dtCall,             \* the delete calls in flight
    dtRoute             \* "detail" while the screen is shown, the list's route after a delete

nsVars == <<nsFormData, nsAvailableItems, nsSelectedItem, nsSelectedQuantity,
            nsLoading, nsSaving, nsError, nsTotalsDue, nsCall, nsRoute>>

epVars == <<epId, epFormData, epAvailableItems, epSelectedItem, epQuantity, epWeight,
            epWeightUnit, epCostPerUnit, epTotalCost, epLoading, epSaving, epError,
            epFetch, epTotalsDue, epCostDue, epCall, epRoute>>

eiVars == <<eiId, eiFormData, eiImageUri, eiCategories, eiAllTags, eiNewTag, eiLoading,
            eiSaving, eiError, eiFetch, eiCall, eiRoute>>

lsVars == <<lsDocs, lsFiltered, lsSearchQuery, lsLoading, lsError, lsFilterDue, lsAlert,
            lsAnswer, lsCalls>>

dtVars == <<dtId, dtDoc, dtLoading, dtError, dtFetch, dtAlert, dtCall, dtRoute>>

\* The state of the components that are neither of the two document forms.
otherVars == <<eiVars, lsVars, dtVars>>

vars == <<screen, nsVars, epVars, eiVars, lsVars, dtVars>>

None == "null"

\* selectedItem = null
NoItem == [_id |-> None]

----------------------------------------------------------------------------
(* Bounds *)

\* Most line items a form holds in the model (handleAddItem is cut off there).
MaxLines == 2

----------------------------------------------------------------------------
(* JavaScript numbers *)

NaN == [n |-> 0, d |-> 0]

RECURSIVE GCD(_, _)
GCD(a, b) == IF b = 0 THEN a ELSE GCD(b, a % b)

Abs(x) == IF x < 0 THEN -x ELSE x

\* The number n/d (d > 0) in lowest terms.
Num(n, d) == LET g == GCD(Abs(n), d) IN [n |-> n \div g, d |-> d \div g]

Zero == Num(0, 1)
Hundred == Num(100, 1)

isNaN(x) == x.d = 0

Add(a, b) == IF isNaN(a) \/ isNaN(b) THEN NaN ELSE Num(a.n * b.d + b.n * a.d, a.d * b.d)
Neg(a) == IF isNaN(a) THEN NaN ELSE [n |-> -a.n, d |-> a.d]
Sub(a, b) == Add(a, Neg(b))
Mul(a, b) == IF isNaN(a) \/ isNaN(b) THEN NaN ELSE Num(a.n * b.n, a.d * b.d)
\* a / b for b a non-zero number (the code only divides by 100).
Div(a, b) ==
    IF isNaN(a) \/ isNaN(b) THEN NaN
    ELSE IF b.n < 0 THEN Num(-(a.n * b.d), a.d * (-b.n)) ELSE Num(a.n * b.d, a.d * b.n)

\* a < b, a <= b, a > b: false as soon as one side is NaN.
Lt(a, b) == ~isNaN(a) /\ ~isNaN(b) /\ a.n * b.d < b.n * a.d
Le(a, b) == ~isNaN(a) /\ ~isNaN(b) /\ a.n * b.d <= b.n * a.d
Gt(a, b) == Lt(b, a)

\* x || 0 : 0 and NaN are falsy.
OrZero(x) == IF isNaN(x) \/ x.n = 0 THEN Zero ELSE x

\* Object.is on numbers (NaN is the same value as NaN; -0 is not modelled).
ObjectIs(a, b) == a = b

----------------------------------------------------------------------------
(* Text <-> number conversions *)

DigitChars == <<"0", "1", "2", "3", "4", "5", "6", "7", "8", "9">>
Digits == {DigitChars[i] : i \in 1..10}
DigitVal(c) == (CHOOSE i \in 1..10 : DigitChars[i] = c) - 1

\* The longest prefix of s made of decimal digits.
RECURSIVE TakeDigits(_)
TakeDigits(s) ==
    IF s # <<>> /\ Head(s) \in Digits THEN <<Head(s)>> \o TakeDigits(Tail(s)) ELSE <<>>

RECURSIVE IntOf(_)
IntOf(ds) ==
    IF ds = <<>> THEN 0
    ELSE 10 * IntOf(SubSeq(ds, 1, Len(ds) - 1)) + DigitVal(ds[Len(ds)])

RECURSIVE Pow10(_)
Pow10(k) == IF k = 0 THEN 1 ELSE 10 * Pow10(k - 1)

Unsigned(s) == IF s # <<>> /\ Head(s) \in {"-", "+"} THEN Tail(s) ELSE s
Signed(s, x) == IF s # <<>> /\ Head(s) = "-" THEN Neg(x) ELSE x

\* parseFloat: optional sign, digits, optional fraction; the longest such
\* prefix is the value and text with no digit at its start is NaN.
\* (Leading white space, exponents and "Infinity" are not in the texts used.)
parseFloat(s) ==
    LET body == Unsigned(s)
        ip   == TakeDigits(body)
        rest == SubSeq(body, Len(ip) + 1, Len(body))
        fp   == IF rest # <<>> /\ Head(rest) = "." THEN TakeDigits(Tail(rest)) ELSE <<>>
    IN  IF ip = <<>> /\ fp = <<>> THEN NaN
        ELSE Signed(s, Num(IntOf(ip) * Pow10(Len(fp)) + IntOf(fp), Pow10(Len(fp))))

\* parseInt (radix 10): optional sign and the longest run of digits.
parseInt(s) ==
    LET ip == TakeDigits(Unsigned(s))
    IN  IF ip = <<>> THEN NaN ELSE Signed(s, Num(IntOf(ip), 1))

RECURSIVE IntDigits(_)
IntDigits(k) ==
    IF k < 10 THEN <<DigitChars[k + 1]>>
    ELSE IntDigits(k \div 10) \o <<DigitChars[(k % 10) + 1]>>

\* The decimal digits of r/d (0 <= r < d), for a terminating expansion.
RECURSIVE FracDigits(_, _)
FracDigits(r, d) ==
    IF r = 0 THEN <<>>
    ELSE <<DigitChars[((10 * r) \div d) + 1]>> \o FracDigits((10 * r) % d, d)

\* Number.prototype.toString for the numbers of the model.
toString(x) ==
    IF isNaN(x) THEN <<"N", "a", "N">>
    ELSE LET a    == Abs(x.n)
             sign == IF x.n < 0 THEN <<"-">> ELSE <<>>
             frac == FracDigits(a % x.d, x.d)
         IN  sign \o IntDigits(a \div x.d) \o (IF frac = <<>> THEN <<>> ELSE <<".">> \o frac)

----------------------------------------------------------------------------
(* The backend's catalog (itemsApi.getAll) *)

\* An optional number that is absent (item.cost).
Undefined == [undefined |-> TRUE]

\* cost and trackingType are optional fields (trackingType None: absent).
BackendItems ==
    << [_id |-> "A", quantity |-> 2, price |-> Num(10, 1), cost |-> Num(5, 2),
        trackingType |-> "quantity"],
       [_id |-> "B", quantity |-> 1, price |-> Num(5, 1), cost |-> Undefined,
        trackingType |-> "weight"],
       [_id |-> "C", quantity |-> 0, price |-> Num(3, 1), cost |-> Undefined,
        trackingType |-> None] >>

\* Mutant of RemoveAt: the element before the one asked for is removed (the
\* first one when the first is asked for).
RemoveAtMutant(s, index) ==
    [i \in 1..(Len(s) - 1) |-> IF i < index THEN s[i] ELSE s[i + 1]]

\* items.filter((_, i) => i !== index), index counted from 0
RemoveAt(s, index) ==
    [i \in 1..(Len(s) - 1) |-> IF i <= index THEN s[i] ELSE s[i + 1]]

Range(s) == {s[i] : i \in 1..Len(s)}

----------------------------------------------------------------------------
(* Texts the user types (small samples of each kind of input) *)

QuantityTexts == { <<>>, <<"0">>, <<"1">>, <<"2">> }
TaxRateTexts  == { <<>>, <<"7", ".", "5">> }
DiscountTexts == { <<"a", "b", "c">>, <<"2">>, <<"5", "0">>, <<"-", "5">> }
NameTexts     == { <<>>, <<"A", "n", "n">> }
SalePaymentMethods == {"cash", "credit"}

----------------------------------------------------------------------------
(* NewSale: the new-sale form *)

nsInitialFormData ==
    [ customerName   |-> <<>>,
      items          |-> <<>>,
      subtotal       |-> Zero,
      taxRate        |-> Num(15, 2),
      taxAmount      |-> Zero,
      discountAmount |-> Zero,
      total          |-> Zero,
      paymentMethod  |-> "cash" ]

nsInit ==
    /\ nsFormData = nsInitialFormData
    /\ nsAvailableItems = <<>>
    /\ nsSelectedItem = NoItem
    /\ nsSelectedQuantity = <<"1">>
    /\ nsLoading = TRUE
    /\ nsSaving = FALSE
    /\ nsError = None
    /\ nsTotalsDue = TRUE
    /\ nsCall = <<>>
    /\ nsRoute = "new"

\* Mutant of nsSubtotal: the quantity is left out of the line total.
RECURSIVE nsSubtotalMutant(_)
nsSubtotalMutant(items) ==
    IF items = <<>> THEN Zero
    ELSE Add(nsSubtotalMutant(SubSeq(items, 1, Len(items) - 1)),
             items[Len(items)].priceAtSale)

\* items.reduce((sum, item) => sum + (item.quantity * item.priceAtSale), 0)
RECURSIVE nsSubtotal(_)
nsSubtotal(items) ==
    IF items = <<>> THEN Zero
    ELSE Add(nsSubtotal(SubSeq(items, 1, Len(items) - 1)),
             Mul(items[Len(items)].quantity, items[Len(items)].priceAtSale))

\* Mutant of nsClamp: the floor at zero is missing.
nsClampMutant(total) == total

\* The value the recalculate-totals effect stores in total.
nsClamp(total) == IF Lt(total, Zero) THEN Zero ELSE total

\* Math.round(x * 100) / 100, for the mutant below.
RoundToCents(x) ==
    IF isNaN(x) THEN NaN ELSE Num((2 * 100 * x.n + x.d) \div (2 * x.d), 100)

\* Mutant of nsRecalculated: taxAmount and total are rounded to cents when stored.
nsRecalculatedRounded(fd) ==
    IF Len(fd.items) = 0
    THEN [fd EXCEPT !.subtotal = Zero, !.taxAmount = Zero, !.total = Zero]
    ELSE LET subtotal  == nsSubtotal(fd.items)
             taxAmount == RoundToCents(Mul(subtotal, Div(OrZero(fd.taxRate), Hundred)))
             total     == Sub(Add(subtotal, taxAmount), OrZero(fd.discountAmount))
         IN  [fd EXCEPT !.subtotal = subtotal, !.taxAmount = taxAmount,
                        !.total = RoundToCents(nsClamp(total))]

\* Mutant of nsRecalculated: the subtotal is added to the one already stored.
nsRecalculatedAccumulating(fd) ==
    IF Len(fd.items) = 0
    THEN [fd EXCEPT !.subtotal = Zero, !.taxAmount = Zero, !.total = Zero]
    ELSE LET subtotal  == Add(fd.subtotal, nsSubtotal(fd.items))
             taxAmount == Mul(subtotal, Div(OrZero(fd.taxRate), Hundred))
             total     == Sub(Add(subtotal, taxAmount), OrZero(fd.discountAmount))
         IN  [fd EXCEPT !.subtotal = subtotal, !.taxAmount = taxAmount,
                        !.total = nsClamp(total)]

\* Mutant of nsRecalculated: the effect also caps the discount at the amount
\* it is taken from, and so writes one of its own dependencies.
nsRecalculatedCapping(fd) ==
    IF Len(fd.items) = 0
    THEN [fd EXCEPT !.subtotal = Zero, !.taxAmount = Zero, !.total = Zero,
                    !.discountAmount = Zero]
    ELSE LET subtotal  == nsSubtotal(fd.items)
             taxAmount == Mul(subtotal, Div(OrZero(fd.taxRate), Hundred))
             total     == Sub(Add(subtotal, taxAmount), OrZero(fd.discountAmount))
         IN  [fd EXCEPT !.subtotal = subtotal, !.taxAmount = taxAmount,
                        !.total = nsClamp(total),
                        !.discountAmount = IF Lt(total, Zero)
                                           THEN Add(subtotal, taxAmount) ELSE @]

\* The form data the recalculate-totals effect leaves behind.
nsRecalculated(fd) ==
    IF Len(fd.items) = 0
    THEN [fd EXCEPT !.subtotal = Zero, !.taxAmount = Zero, !.total = Zero]
    ELSE LET subtotal  == nsSubtotal(fd.items)
             taxAmount == Mul(subtotal, Div(OrZero(fd.taxRate), Hundred))
             total     == Sub(Add(subtotal, taxAmount), OrZero(fd.discountAmount))
         IN  [fd EXCEPT !.subtotal = subtotal, !.taxAmount = taxAmount,
                        !.total = nsClamp(total)]

\* Mutant of nsDepsChanged: discountAmount is missing from the dependency list.
nsDepsChangedMutant(old, new, newArray) ==
    newArray \/ ~ObjectIs(old.taxRate, new.taxRate)

\* The dependency list [formData.items, formData.taxRate, formData.discountAmount]:
\* the effect is due when the items array was replaced or a number changed.
nsDepsChanged(old, new, newArray) ==
    \/ newArray
    \/ ~ObjectIs(old.taxRate, new.taxRate)
    \/ ~ObjectIs(old.discountAmount, new.discountAmount)

\* No handler runs while the form shows the loading indicator, after the
\* screen was replaced, or before a due effect has run.
nsIdle == screen = "sale" /\ nsRoute = "new" /\ ~nsLoading /\ ~nsTotalsDue

\* The recalculate-totals effect.
nsRecalculateTotals ==
    /\ screen = "sale"
    /\ nsTotalsDue
    /\ nsFormData' = nsRecalculated(nsFormData)
    /\ nsTotalsDue' = nsDepsChanged(nsFormData, nsFormData', FALSE)
    /\ UNCHANGED <<screen, otherVars, epVars, nsAvailableItems, nsSelectedItem, nsSelectedQuantity,
                   nsLoading, nsSaving, nsError, nsCall, nsRoute>>

\* fetchItems, itemsApi.getAll() resolved.
nsFetchItemsResolved ==
    /\ screen = "sale" /\ nsLoading /\ ~nsTotalsDue
    /\ nsAvailableItems' = SelectSeq(BackendItems, LAMBDA item : item.quantity > 0)
    /\ nsLoading' = FALSE
    /\ UNCHANGED <<screen, otherVars, epVars, nsFormData, nsSelectedItem, nsSelectedQuantity, nsSaving,
                   nsError, nsTotalsDue, nsCall, nsRoute>>

\* fetchItems, itemsApi.getAll() rejected.
nsFetchItemsRejected ==
    /\ screen = "sale" /\ nsLoading /\ ~nsTotalsDue
    /\ nsError' = "Failed to load inventory items. Please check your connection."
    /\ nsLoading' = FALSE
    /\ UNCHANGED <<screen, otherVars, epVars, nsFormData, nsAvailableItems, nsSelectedItem,
                   nsSelectedQuantity, nsSaving, nsTotalsDue, nsCall, nsRoute>>

\* Mutant of nsFieldValue: the "|| 0" is missing.
nsFieldValueMutant(field, value) ==
    IF field = "taxRate" \/ field = "discountAmount" THEN parseFloat(value) ELSE value

\* The value handleTextChange stores for a field.
nsFieldValue(field, value) ==
    IF field = "taxRate" \/ field = "discountAmount"
    THEN OrZero(parseFloat(value))
    ELSE value

\* handleTextChange(field, value), from the TextInputs (editable = !saving).
nsHandleTextChange(field, value) ==
    /\ nsIdle /\ ~nsSaving
    /\ nsFormData' = [nsFormData EXCEPT ![field] = nsFieldValue(field, value)]
    /\ nsTotalsDue' = nsDepsChanged(nsFormData, nsFormData', FALSE)
    /\ UNCHANGED <<screen, otherVars, epVars, nsAvailableItems, nsSelectedItem, nsSelectedQuantity,
                   nsLoading, nsSaving, nsError, nsCall, nsRoute>>

\* The payment-method Picker (enabled = !saving).
nsSetPaymentMethod(value) ==
    /\ nsIdle /\ ~nsSaving
    /\ nsFormData' = [nsFormData EXCEPT !.paymentMethod = value]
    /\ UNCHANGED <<screen, otherVars, epVars, nsAvailableItems, nsSelectedItem, nsSelectedQuantity,
                   nsLoading, nsSaving, nsError, nsTotalsDue, nsCall, nsRoute>>

\* handleSelectItem(item): an item picked in the selection modal, which the
\* select button (disabled = saving || no available item) opens.
nsHandleSelectItem(item) ==
    /\ nsIdle /\ ~nsSaving
    /\ item \in Range(nsAvailableItems)
    /\ nsSelectedItem' = item
    /\ nsSelectedQuantity' = <<"1">>
    /\ UNCHANGED <<screen, otherVars, epVars, nsFormData, nsAvailableItems, nsLoading, nsSaving, nsError,
                   nsTotalsDue, nsCall, nsRoute>>

\* setSelectedQuantity, from the quantity TextInput of the selected-item card.
nsSetSelectedQuantity(value) ==
    /\ nsIdle /\ ~nsSaving
    /\ nsSelectedItem # NoItem
    /\ nsSelectedQuantity' = value
    /\ UNCHANGED <<screen, otherVars, epVars, nsFormData, nsAvailableItems, nsSelectedItem, nsLoading,
                   nsSaving, nsError, nsTotalsDue, nsCall, nsRoute>>

\* Mutant of nsAddItemError: the stock ceiling is not checked.
nsAddItemErrorMutant(selectedItem, selectedQuantity) ==
    LET quantity == parseInt(selectedQuantity)
    IN  IF selectedItem = NoItem THEN "Please select an item"
        ELSE IF isNaN(quantity) \/ Le(quantity, Zero)
             THEN "Quantity must be a positive number"
        ELSE None

\* Mutant of nsAddItemError: a quantity of 0 passes ("< 0" for "<= 0").
nsAddItemErrorZeroMutant(selectedItem, selectedQuantity) ==
    LET quantity == parseInt(selectedQuantity)
    IN  IF selectedItem = NoItem THEN "Please select an item"
        ELSE IF isNaN(quantity) \/ Lt(quantity, Zero)
             THEN "Quantity must be a positive number"
        ELSE IF Gt(quantity, Num(selectedItem.quantity, 1))
             THEN "Only N items available in stock"
        ELSE None

\* Mutant of nsAddItemError: the stock check counts what the lines of the
\* sale already hold of the item.
nsAddItemErrorCumulative(selectedItem, selectedQuantity) ==
    LET quantity == parseInt(selectedQuantity)
        items    == nsFormData.items
        held[i \in 0..Len(items)] ==
            IF i = 0 THEN Zero
            ELSE Add(held[i - 1],
                     IF items[i].item = selectedItem._id THEN items[i].quantity ELSE Zero)
    IN  IF selectedItem = NoItem THEN "Please select an item"
        ELSE IF isNaN(quantity) \/ Le(quantity, Zero)
             THEN "Quantity must be a positive number"
        ELSE IF Gt(Add(quantity, held[Len(items)]), Num(selectedItem.quantity, 1))
             THEN "Only N items available in stock"
        ELSE None

\* The error handleAddItem rejects with, or None when it accepts.
nsAddItemError(selectedItem, selectedQuantity) ==
    LET quantity == parseInt(selectedQuantity)
    IN  IF selectedItem = NoItem THEN "Please select an item"
        ELSE IF isNaN(quantity) \/ Le(quantity, Zero)
             THEN "Quantity must be a positive number"
        ELSE IF Gt(quantity, Num(selectedItem.quantity, 1))
             THEN "Only N items available in stock"
        ELSE None

\* Mutant of nsNewItem: the line's total is stored as its price.
nsNewItemMutant(selectedItem, quantity) ==
    [ item        |-> selectedItem._id,
      quantity    |-> quantity,
      priceAtSale |-> Mul(selectedItem.price, quantity) ]

\* The SaleItem handleAddItem builds.
nsNewItem(selectedItem, quantity) ==
    [ item        |-> selectedItem._id,
      quantity    |-> quantity,
      priceAtSale |-> selectedItem.price ]

\* handleAddItem, from the "Add to Sale" button of the selected-item card
\* (rendered while an item is selected, disabled = saving).
nsHandleAddItem ==
    /\ nsIdle /\ ~nsSaving
    /\ nsSelectedItem # NoItem
    /\ LET rejected == nsAddItemError(nsSelectedItem, nsSelectedQuantity)
           newItem  == nsNewItem(nsSelectedItem, parseInt(nsSelectedQuantity))
       IN  IF rejected # None
           THEN /\ nsError' = rejected
                /\ UNCHANGED <<nsFormData, nsSelectedItem, nsSelectedQuantity, nsTotalsDue>>
           ELSE /\ Len(nsFormData.items) < MaxLines
                /\ nsFormData' = [nsFormData EXCEPT !.items = Append(@, newItem)]
                /\ nsSelectedItem' = NoItem
                /\ nsSelectedQuantity' = <<"1">>
                /\ nsError' = None
                /\ nsTotalsDue' = TRUE
    /\ UNCHANGED <<screen, otherVars, epVars, nsAvailableItems, nsLoading, nsSaving, nsCall, nsRoute>>

\* Mutant of nsHandleRemoveItem: the trash button is not disabled while saving.
nsHandleRemoveItemMutant(index) ==
    /\ nsIdle
    /\ index \in 0..(Len(nsFormData.items) - 1)
    /\ nsFormData' = [nsFormData EXCEPT !.items = RemoveAt(@, index)]
    /\ nsTotalsDue' = TRUE
    /\ UNCHANGED <<screen, otherVars, epVars, nsAvailableItems, nsSelectedItem, nsSelectedQuantity,
                   nsLoading, nsSaving, nsError, nsCall, nsRoute>>

\* handleRemoveItem(index), from a line's trash button (disabled = saving).
nsHandleRemoveItem(index) ==
    /\ nsIdle /\ ~nsSaving
    /\ index \in 0..(Len(nsFormData.items) - 1)
    /\ nsFormData' = [nsFormData EXCEPT !.items = RemoveAt(@, index)]
    /\ nsTotalsDue' = TRUE
    /\ UNCHANGED <<screen, otherVars, epVars, nsAvailableItems, nsSelectedItem, nsSelectedQuantity,
                   nsLoading, nsSaving, nsError, nsCall, nsRoute>>

\* Mutant of nsValidateForm: the total is not checked.
nsValidateFormMutant(fd) ==
    IF Len(fd.items) = 0 THEN "At least one item is required" ELSE None

\* validateForm
nsValidateForm(fd) ==
    IF Len(fd.items) = 0 THEN "At least one item is required"
    ELSE IF Le(OrZero(fd.total), Zero) THEN "Sale total must be greater than zero"
    ELSE None

\* handleSubmit up to its await: validation, then salesApi.create(formData).
nsHandleSubmit ==
    /\ nsIdle /\ ~nsSaving
    /\ LET validationError == nsValidateForm(nsFormData)
       IN  IF validationError # None
           THEN /\ nsError' = validationError
                /\ UNCHANGED <<nsSaving, nsCall>>
           ELSE /\ nsSaving' = TRUE
                /\ nsError' = None
                /\ nsCall' = <<nsFormData>>
    /\ UNCHANGED <<screen, otherVars, epVars, nsFormData, nsAvailableItems, nsSelectedItem,
                   nsSelectedQuantity, nsLoading, nsTotalsDue, nsRoute>>

\* handleSubmit after the await, salesApi.create resolved.
nsCreateResolved ==
    /\ screen = "sale" /\ nsCall # <<>>
    /\ nsRoute' = "/sales"
    /\ nsSaving' = FALSE
    /\ nsCall' = <<>>
    /\ UNCHANGED <<screen, otherVars, epVars, nsFormData, nsAvailableItems, nsSelectedItem,
                   nsSelectedQuantity, nsLoading, nsError, nsTotalsDue>>

\* Mutant of nsCreateRejected: saving is not reset (the finally branch is missing).
nsCreateRejectedMutant ==
    /\ screen = "sale" /\ nsCall # <<>>
    /\ nsError' = "Failed to create sale. Please try again."
    /\ nsCall' = <<>>
    /\ UNCHANGED <<screen, otherVars, epVars, nsFormData, nsAvailableItems, nsSelectedItem,
                   nsSelectedQuantity, nsLoading, nsSaving, nsTotalsDue, nsRoute>>

\* handleSubmit after the await, salesApi.create rejected.
nsCreateRejected ==
    /\ screen = "sale" /\ nsCall # <<>>
    /\ nsError' = "Failed to create sale. Please try again."
    /\ nsSaving' = FALSE
    /\ nsCall' = <<>>
    /\ UNCHANGED <<screen, otherVars, epVars, nsFormData, nsAvailableItems, nsSelectedItem,
                   nsSelectedQuantity, nsLoading, nsTotalsDue, nsRoute>>

nsNext ==
    \/ nsRecalculateTotals
    \/ nsFetchItemsResolved
    \/ nsFetchItemsRejected
    \/ \E value \in TaxRateTexts : nsHandleTextChange("taxRate", value)
    \/ \E value \in DiscountTexts : nsHandleTextChange("discountAmount", value)
    \/ \E value \in NameTexts : nsHandleTextChange("customerName", value)
    \/ \E value \in SalePaymentMethods : nsSetPaymentMethod(value)
    \/ \E item \in Range(BackendItems) : nsHandleSelectItem(item)
    \/ \E value \in QuantityTexts : nsSetSelectedQuantity(value)
    \/ nsHandleAddItem
    \/ \E index \in 0..(MaxLines - 1) : nsHandleRemoveItem(index)
    \/ nsHandleSubmit
    \/ nsCreateResolved
    \/ nsCreateRejected


----------------------------------------------------------------------------
(* EditPurchase: the edit-purchase form *)

epQuantityTexts == { <<>>, <<"1", "0">> }
epWeightTexts   == { <<"2">> }
epCostTexts     == { <<>>, <<"-", "1">> }
epWeightUnits   == {"lb", "kg"}
epTaxRateTexts  == { <<>>, <<"5">> }
epShippingTexts == { <<"a", "b", "c">>, <<"1", "2">> }
epNameTexts     == { <<" ">> }

\* What itemsApi.getAll() answers the edit-purchase form with: a catalog
\* that holds one of the items.
epCatalogs == { <<BackendItems[i]>> : i \in 1..Len(BackendItems) }

\* What purchasesApi.getById(id) answers: a purchase of 4 x 2.50 whose line
\* total was later set to 8 by hand, the aggregates being those stored before.
BackendPurchases ==
    { [ supplier     |-> [name |-> <<"A", "c", "m", "e">>],
        items        |-> << [item |-> "A", costPerUnit |-> Num(5, 2),
                             totalCost |-> Num(8, 1), quantity |-> Num(4, 1)] >>,
        subtotal     |-> Num(10, 1),
        taxRate      |-> Num(5, 1),
        taxAmount    |-> Num(1, 2),
        shippingCost |-> Num(12, 1),
        total        |-> Num(45, 2) ] }

epInitialFormData ==
    [ supplier     |-> [name |-> <<>>],
      items        |-> <<>>,
      subtotal     |-> Zero,
      taxRate      |-> Zero,
      taxAmount    |-> Zero,
      shippingCost |-> Zero,
      total        |-> Zero ]

epInit ==
    /\ epId \in {"p1", None}
    /\ epFormData = epInitialFormData
    /\ epAvailableItems = <<>>
    /\ epSelectedItem = NoItem
    /\ epQuantity = <<"1">>
    /\ epWeight = <<"0">>
    /\ epWeightUnit = "lb"
    /\ epCostPerUnit = <<"0">>
    /\ epTotalCost = <<"0">>
    /\ epLoading = TRUE
    /\ epSaving = FALSE
    /\ epError = None
    /\ epFetch = "due"
    /\ epTotalsDue = TRUE
    /\ epCostDue = TRUE
    /\ epCall = <<>>
    /\ epRoute = "edit"

\* Mutant of epSubtotal: a line's total is recomputed from its quantity or
\* weight and its costPerUnit.
RECURSIVE epSubtotalMutant(_)
epSubtotalMutant(items) ==
    IF items = <<>> THEN Zero
    ELSE LET line == items[Len(items)]
         IN  Add(epSubtotalMutant(SubSeq(items, 1, Len(items) - 1)),
                 Mul(IF "weight" \in DOMAIN line THEN line.weight ELSE line.quantity,
                     line.costPerUnit))

\* items.reduce((sum, item) => sum + item.totalCost, 0)
RECURSIVE epSubtotal(_)
epSubtotal(items) ==
    IF items = <<>> THEN Zero
    ELSE Add(epSubtotal(SubSeq(items, 1, Len(items) - 1)), items[Len(items)].totalCost)

\* Mutant of epRecalculated: the total is floored at zero, as the sale's is.
epRecalculatedClamped(fd) ==
    IF Len(fd.items) = 0
    THEN [fd EXCEPT !.subtotal = Zero, !.taxAmount = Zero, !.total = Zero]
    ELSE LET subtotal     == epSubtotal(fd.items)
             taxAmount    == Mul(subtotal, Div(OrZero(fd.taxRate), Hundred))
             total        == Add(Add(subtotal, taxAmount), OrZero(fd.shippingCost))
         IN  [fd EXCEPT !.subtotal = subtotal, !.taxAmount = taxAmount,
                        !.total = IF Lt(total, Zero) THEN Zero ELSE total]

\* Mutant of epRecalculated: the short cut for an empty items array is missing.
epRecalculatedNoShortCut(fd) ==
    LET subtotal     == epSubtotal(fd.items)
        taxAmount    == Mul(subtotal, Div(OrZero(fd.taxRate), Hundred))
        total        == Add(Add(subtotal, taxAmount), OrZero(fd.shippingCost))
    IN  [fd EXCEPT !.subtotal = subtotal, !.taxAmount = taxAmount, !.total = total]

\* The form data the recalculate-totals effect leaves behind.
epRecalculated(fd) ==
    IF Len(fd.items) = 0
    THEN [fd EXCEPT !.subtotal = Zero, !.taxAmount = Zero, !.total = Zero]
    ELSE LET subtotal     == epSubtotal(fd.items)
             taxAmount    == Mul(subtotal, Div(OrZero(fd.taxRate), Hundred))
             shippingCost == OrZero(fd.shippingCost)
             total        == Add(Add(subtotal, taxAmount), shippingCost)
         IN  [fd EXCEPT !.subtotal = subtotal, !.taxAmount = taxAmount, !.total = total]

\* Mutant of epDepsChanged: shippingCost is missing from the dependency list.
epDepsChangedMutant(old, new, newArray) ==
    newArray \/ ~ObjectIs(old.taxRate, new.taxRate)

\* The dependency list [formData.items, formData.taxRate, formData.shippingCost].
epDepsChanged(old, new, newArray) ==
    \/ newArray
    \/ ~ObjectIs(old.taxRate, new.taxRate)
    \/ ~ObjectIs(old.shippingCost, new.shippingCost)

\* costPerUnit || '0'
epCostOrZeroText(costPerUnit) == IF costPerUnit = <<>> THEN <<"0">> ELSE costPerUnit

\* The text the total-cost effect stores in totalCost.
epComputedTotalCost(selectedItem, quantity, weight, costPerUnit) ==
    IF selectedItem.trackingType = "weight"
    THEN toString(Mul(parseFloat(weight), parseFloat(epCostOrZeroText(costPerUnit))))
    ELSE toString(Mul(parseInt(quantity), parseFloat(epCostOrZeroText(costPerUnit))))

epIdle ==
    /\ screen = "purchase" /\ epRoute = "edit" /\ ~epLoading
    /\ epFetch # "due" /\ ~epTotalsDue /\ ~epCostDue

\* The fetch effect, run once after mount.
epFetchEffect ==
    /\ screen = "purchase" /\ epFetch = "due"
    /\ IF epId # None
       THEN /\ epFetch' = "pending"
            /\ UNCHANGED <<epLoading, epError>>
       ELSE /\ epFetch' = "done"
            /\ epLoading' = FALSE
            /\ epError' = "Purchase ID is missing"
    /\ UNCHANGED <<screen, otherVars, nsVars, epId, epFormData, epAvailableItems, epSelectedItem,
                   epQuantity, epWeight, epWeightUnit, epCostPerUnit, epTotalCost,
                   epSaving, epTotalsDue, epCostDue, epCall, epRoute>>

\* The recalculate-totals effect.
epRecalculateTotals ==
    /\ screen = "purchase" /\ epFetch # "due"
    /\ epTotalsDue
    /\ epFormData' = epRecalculated(epFormData)
    /\ epTotalsDue' = epDepsChanged(epFormData, epFormData', FALSE)
    /\ UNCHANGED <<screen, otherVars, nsVars, epId, epAvailableItems, epSelectedItem, epQuantity,
                   epWeight, epWeightUnit, epCostPerUnit, epTotalCost, epLoading,
                   epSaving, epError, epFetch, epCostDue, epCall, epRoute>>

\* The total-cost effect.
epUpdateTotalCost ==
    /\ screen = "purchase" /\ epFetch # "due" /\ ~epTotalsDue
    /\ epCostDue
    /\ epTotalCost' =
          IF epSelectedItem # NoItem
          THEN epComputedTotalCost(epSelectedItem, epQuantity, epWeight, epCostPerUnit)
          ELSE epTotalCost
    /\ epCostDue' = FALSE
    /\ UNCHANGED <<screen, otherVars, nsVars, epId, epFormData, epAvailableItems, epSelectedItem,
                   epQuantity, epWeight, epWeightUnit, epCostPerUnit, epLoading,
                   epSaving, epError, epFetch, epTotalsDue, epCall, epRoute>>

\* Mutant of epFetchDataResolved: the loaded form data does not make the
\* recalculate-totals effect due.
epFetchDataResolvedMutant(itemsData, purchaseData) ==
    /\ screen = "purchase" /\ epFetch = "pending" /\ ~epTotalsDue /\ ~epCostDue
    /\ epAvailableItems' = itemsData
    /\ epFormData' = purchaseData
    /\ epLoading' = FALSE
    /\ epFetch' = "done"
    /\ UNCHANGED <<screen, otherVars, nsVars, epId, epSelectedItem, epQuantity, epWeight,
                   epWeightUnit, epCostPerUnit, epTotalCost, epSaving, epError,
                   epTotalsDue, epCostDue, epCall, epRoute>>

\* fetchData, Promise.all([itemsApi.getAll(), purchasesApi.getById(id)]) resolved.
epFetchDataResolved(itemsData, purchaseData) ==
    /\ screen = "purchase" /\ epFetch = "pending" /\ ~epTotalsDue /\ ~epCostDue
    /\ epAvailableItems' = itemsData
    /\ epFormData' = purchaseData
    /\ epTotalsDue' = TRUE
    /\ epLoading' = FALSE
    /\ epFetch' = "done"
    /\ UNCHANGED <<screen, otherVars, nsVars, epId, epSelectedItem, epQuantity, epWeight,
                   epWeightUnit, epCostPerUnit, epTotalCost, epSaving, epError,
                   epCostDue, epCall, epRoute>>

\* fetchData, one of the two requests rejected.
epFetchDataRejected ==
    /\ screen = "purchase" /\ epFetch = "pending" /\ ~epTotalsDue /\ ~epCostDue
    /\ epError' = "Failed to load purchase data. Please check your connection."
    /\ epLoading' = FALSE
    /\ epFetch' = "done"
    /\ UNCHANGED <<screen, otherVars, nsVars, epId, epFormData, epAvailableItems, epSelectedItem,
                   epQuantity, epWeight, epWeightUnit, epCostPerUnit, epTotalCost,
                   epSaving, epTotalsDue, epCostDue, epCall, epRoute>>

\* The form data handleTextChange leaves behind.
epTextChanged(fd, field, value) ==
    IF field = "supplier.name"
    THEN [fd EXCEPT !.supplier = [@ EXCEPT !.name = value]]
    ELSE IF field = "taxRate" \/ field = "shippingCost"
    THEN [fd EXCEPT ![field] = OrZero(parseFloat(value))]
    ELSE [fd EXCEPT ![field] = value]

\* handleTextChange(field, value), from the TextInputs (editable = !saving).
epHandleTextChange(field, value) ==
    /\ epIdle /\ ~epSaving
    /\ epFormData' = epTextChanged(epFormData, field, value)
    /\ epTotalsDue' = epDepsChanged(epFormData, epFormData', FALSE)
    /\ UNCHANGED <<screen, otherVars, nsVars, epId, epAvailableItems, epSelectedItem, epQuantity,
                   epWeight, epWeightUnit, epCostPerUnit, epTotalCost, epLoading,
                   epSaving, epError, epFetch, epCostDue, epCall, epRoute>>

\* item.cost?.toString() || item.price.toString()
epCostText(item) == IF item.cost # Undefined THEN toString(item.cost) ELSE toString(item.price)

\* handleSelectItem(item): an item picked in the selection modal, which the
\* button (disabled = saving || no available item) opens.
epHandleSelectItem(item) ==
    /\ epIdle /\ ~epSaving
    /\ item \in Range(epAvailableItems)
    /\ epSelectedItem' = item
    /\ epCostPerUnit' = epCostText(item)
    /\ epCostDue' = (epSelectedItem' # epSelectedItem \/ epCostPerUnit' # epCostPerUnit)
    /\ UNCHANGED <<screen, otherVars, nsVars, epId, epFormData, epAvailableItems, epQuantity,
                   epWeight, epWeightUnit, epTotalCost, epLoading, epSaving, epError,
                   epFetch, epTotalsDue, epCall, epRoute>>

\* setQuantity, from the quantity TextInput (shown for an item not tracked by weight).
epSetQuantity(value) ==
    /\ epIdle /\ ~epSaving
    /\ epSelectedItem # NoItem /\ epSelectedItem.trackingType # "weight"
    /\ epQuantity' = value
    /\ epCostDue' = (value # epQuantity)
    /\ UNCHANGED <<screen, otherVars, nsVars, epId, epFormData, epAvailableItems, epSelectedItem,
                   epWeight, epWeightUnit, epCostPerUnit, epTotalCost, epLoading,
                   epSaving, epError, epFetch, epTotalsDue, epCall, epRoute>>

\* setWeight, from the weight TextInput (shown for an item tracked by weight).
epSetWeight(value) ==
    /\ epIdle /\ ~epSaving
    /\ epSelectedItem # NoItem /\ epSelectedItem.trackingType = "weight"
    /\ epWeight' = value
    /\ epCostDue' = (value # epWeight)
    /\ UNCHANGED <<screen, otherVars, nsVars, epId, epFormData, epAvailableItems, epSelectedItem,
                   epQuantity, epWeightUnit, epCostPerUnit, epTotalCost, epLoading,
                   epSaving, epError, epFetch, epTotalsDue, epCall, epRoute>>

\* setWeightUnit, from the weight-unit Picker (shown for an item tracked by weight).
epSetWeightUnit(value) ==
    /\ epIdle /\ ~epSaving
    /\ epSelectedItem # NoItem /\ epSelectedItem.trackingType = "weight"
    /\ epWeightUnit' = value
    /\ epCostDue' = (value # epWeightUnit)
    /\ UNCHANGED <<screen, otherVars, nsVars, epId, epFormData, epAvailableItems, epSelectedItem,
                   epQuantity, epWeight, epCostPerUnit, epTotalCost, epLoading,
                   epSaving, epError, epFetch, epTotalsDue, epCall, epRoute>>

\* setCostPerUnit, from the cost TextInput of the selected-item card.
epSetCostPerUnit(value) ==
    /\ epIdle /\ ~epSaving
    /\ epSelectedItem # NoItem
    /\ epCostPerUnit' = value
    /\ epCostDue' = (value # epCostPerUnit)
    /\ UNCHANGED <<screen, otherVars, nsVars, epId, epFormData, epAvailableItems, epSelectedItem,
                   epQuantity, epWeight, epWeightUnit, epTotalCost, epLoading,
                   epSaving, epError, epFetch, epTotalsDue, epCall, epRoute>>

\* Mutant of epNewItem: the quantity is set on every line.
epNewItemMutant(selectedItem, quantity, weight, weightUnit, costPerUnit, totalCost) ==
    IF selectedItem.trackingType = "weight"
    THEN [ item        |-> selectedItem._id,
           costPerUnit |-> parseFloat(costPerUnit),
           totalCost   |-> parseFloat(totalCost),
           quantity    |-> parseInt(quantity),
           weight      |-> parseFloat(weight),
           weightUnit  |-> weightUnit ]
    ELSE [ item        |-> selectedItem._id,
           costPerUnit |-> parseFloat(costPerUnit),
           totalCost   |-> parseFloat(totalCost),
           quantity    |-> parseInt(quantity) ]

\* The PurchaseItem handleAddItem builds.
epNewItem(selectedItem, quantity, weight, weightUnit, costPerUnit, totalCost) ==
    IF selectedItem.trackingType = "weight"
    THEN [ item        |-> selectedItem._id,
           costPerUnit |-> parseFloat(costPerUnit),
           totalCost   |-> parseFloat(totalCost),
           weight      |-> parseFloat(weight),
           weightUnit  |-> weightUnit ]
    ELSE [ item        |-> selectedItem._id,
           costPerUnit |-> parseFloat(costPerUnit),
           totalCost   |-> parseFloat(totalCost),
           quantity    |-> parseInt(quantity) ]

\* handleAddItem, from the "Add to Purchase" button of the selected-item card
\* (rendered while an item is selected, disabled = saving).
epHandleAddItem ==
    /\ epIdle /\ ~epSaving
    /\ epSelectedItem # NoItem
    /\ Len(epFormData.items) < MaxLines
    /\ epFormData' = [epFormData EXCEPT !.items =
           Append(@, epNewItem(epSelectedItem, epQuantity, epWeight, epWeightUnit,
                               epCostPerUnit, epTotalCost))]
    /\ epSelectedItem' = NoItem
    /\ epQuantity' = <<"1">>
    /\ epWeight' = <<"0">>
    /\ epCostPerUnit' = <<"0">>
    /\ epTotalCost' = <<"0">>
    /\ epTotalsDue' = TRUE
    /\ epCostDue' = TRUE
    /\ UNCHANGED <<screen, otherVars, nsVars, epId, epAvailableItems, epWeightUnit, epLoading,
                   epSaving, epError, epFetch, epCall, epRoute>>

\* handleRemoveItem(index), from a line's trash button (disabled = saving).
epHandleRemoveItem(index) ==
    /\ epIdle /\ ~epSaving
    /\ index \in 0..(Len(epFormData.items) - 1)
    /\ epFormData' = [epFormData EXCEPT !.items = RemoveAt(@, index)]
    /\ epTotalsDue' = TRUE
    /\ UNCHANGED <<screen, otherVars, nsVars, epId, epAvailableItems, epSelectedItem, epQuantity,
                   epWeight, epWeightUnit, epCostPerUnit, epTotalCost, epLoading,
                   epSaving, epError, epFetch, epCostDue, epCall, epRoute>>

\* The error handleSave rejects with, or None when it sends the request.
epSaveError(fd) ==
    IF fd.supplier.name = <<>> THEN "Supplier name is required"
    ELSE IF Len(fd.items) = 0 THEN "At least one item is required"
    ELSE None

\* handleSave up to its await: the two checks, then purchasesApi.update(id, formData).
epHandleSave ==
    /\ epIdle /\ ~epSaving
    /\ LET rejected == epSaveError(epFormData)
       IN  IF rejected # None
           THEN /\ epError' = rejected
                /\ UNCHANGED <<epSaving, epCall>>
           ELSE /\ epSaving' = TRUE
                /\ epError' = None
                /\ epCall' = <<epFormData>>
    /\ UNCHANGED <<screen, otherVars, nsVars, epId, epFormData, epAvailableItems, epSelectedItem,
                   epQuantity, epWeight, epWeightUnit, epCostPerUnit, epTotalCost,
                   epLoading, epFetch, epTotalsDue, epCostDue, epRoute>>

\* handleSave after the await, purchasesApi.update resolved.
epUpdateResolved ==
    /\ screen = "purchase" /\ epCall # <<>>
    /\ epRoute' = "/purchases"
    /\ epSaving' = FALSE
    /\ epCall' = <<>>
    /\ UNCHANGED <<screen, otherVars, nsVars, epId, epFormData, epAvailableItems, epSelectedItem,
                   epQuantity, epWeight, epWeightUnit, epCostPerUnit, epTotalCost,
                   epLoading, epError, epFetch, epTotalsDue, epCostDue>>

\* handleSave after the await, purchasesApi.update rejected.
epUpdateRejected ==
    /\ screen = "purchase" /\ epCall # <<>>
    /\ epError' = "Failed to update purchase. Please try again."
    /\ epSaving' = FALSE
    /\ epCall' = <<>>
    /\ UNCHANGED <<screen, otherVars, nsVars, epId, epFormData, epAvailableItems, epSelectedItem,
                   epQuantity, epWeight, epWeightUnit, epCostPerUnit, epTotalCost,
                   epLoading, epFetch, epTotalsDue, epCostDue, epRoute>>

epNext ==
    \/ epFetchEffect
    \/ epRecalculateTotals
    \/ epUpdateTotalCost
    \/ \E itemsData \in epCatalogs, purchaseData \in BackendPurchases :
          epFetchDataResolved(itemsData, purchaseData)
    \/ epFetchDataRejected
    \/ \E value \in epTaxRateTexts : epHandleTextChange("taxRate", value)
    \/ \E value \in epShippingTexts : epHandleTextChange("shippingCost", value)
    \/ \E value \in epNameTexts : epHandleTextChange("supplier.name", value)
    \/ \E item \in Range(BackendItems) : epHandleSelectItem(item)
    \/ \E value \in epQuantityTexts : epSetQuantity(value)
    \/ \E value \in epWeightTexts : epSetWeight(value)
    \/ \E value \in epWeightUnits : epSetWeightUnit(value)
    \/ \E value \in epCostTexts : epSetCostPerUnit(value)
    \/ epHandleAddItem
    \/ \E index \in 0..(MaxLines - 1) : epHandleRemoveItem(index)
    \/ epHandleSave
    \/ epUpdateResolved
    \/ epUpdateRejected

----------------------------------------------------------------------------
(* EditInventoryItem: the edit-item form *)

\* String.prototype.trim, for the blank that texts of the model hold.
RECURSIVE trimStart(_)
trimStart(text) ==
    IF text # <<>> /\ Head(text) = " " THEN trimStart(Tail(text)) ELSE text

RECURSIVE trimEnd(_)
trimEnd(text) ==
    IF text # <<>> /\ text[Len(text)] = " "
    THEN trimEnd(SubSeq(text, 1, Len(text) - 1))
    ELSE text

trim(text) == trimEnd(trimStart(text))

\* What itemsApi.getById(id) answers, by id: the second item has no
\* description, no tags and no image.
eiBackendItems ==
    [ i1 |-> [ name |-> <<"N", "u", "t">>, sku |-> "SKU-1", category |-> <<"h", "w">>,
               quantity |-> Num(2, 1), price |-> Num(10, 1),
               description |-> <<"d">>, tags |-> << <<"t", "1">> >>,
               imageUrl |-> "http://img/1.jpg" ],
      i2 |-> [ name |-> <<"C", "o", "g">>, sku |-> "SKU-2", category |-> <<"h", "w">>,
               quantity |-> Num(1, 1), price |-> Num(5, 2) ] ]

\* What itemsApi.getCategories() and itemsApi.getTags() answer.
eiBackendCategories == << <<"h", "w">>, <<"g", "a", "r">> >>
eiBackendTags       == << <<"t", "1">> >>

eiNameTexts        == { <<" ">>, <<"B">> }
eiCategoryTexts    == { <<>> }
eiQuantityTexts    == { <<"-", "1">>, <<"x">> }
eiPriceTexts       == { <<"4">> }
eiDescriptionTexts == { <<"e">> }
eiTagTexts         == { <<" ">>, <<"t", "2", " ">> }
eiPickedImages     == { "file:///photo.jpg" }

eiInitialFormData ==
    [ name        |-> <<>>,
      sku         |-> "",
      category    |-> <<>>,
      quantity    |-> Zero,
      price       |-> Zero,
      description |-> <<>>,
      tags        |-> <<>> ]

eiInit ==
    /\ eiId \in {"i1", "i2", None}
    /\ eiFormData = eiInitialFormData
    /\ eiImageUri = None
    /\ eiCategories = <<>>
    /\ eiAllTags = <<>>
    /\ eiNewTag = <<>>
    /\ eiLoading = TRUE
    /\ eiSaving = FALSE
    /\ eiError = None
    /\ eiFetch = "due"
    /\ eiCall = <<>>
    /\ eiRoute = "edit"

\* The form is rendered (not the loading indicator) and the route is on it.
eiIdle == screen = "item" /\ eiRoute = "edit" /\ ~eiLoading /\ eiFetch # "due"

\* The fetch effect, run once after mount: fetchData up to its await.  With
\* no id it returns before the try block, so that nothing is set.
eiFetchEffect ==
    /\ screen = "item" /\ eiFetch = "due"
    /\ eiFetch' = IF eiId = None THEN "returned" ELSE "pending"
    /\ UNCHANGED <<screen, nsVars, epVars, lsVars, dtVars, eiId, eiFormData, eiImageUri,
                   eiCategories, eiAllTags, eiNewTag, eiLoading, eiSaving, eiError,
                   eiCall, eiRoute>>

\* The form data fetchData builds from the item the backend answered.
eiLoadedFormData(data) ==
    [ name        |-> data.name,
      sku         |-> data.sku,
      category    |-> data.category,
      quantity    |-> data.quantity,
      price       |-> data.price,
      description |-> IF "description" \in DOMAIN data THEN data.description ELSE <<>>,
      tags        |-> IF "tags" \in DOMAIN data THEN data.tags ELSE <<>> ]

\* fetchData, the three requests resolved.
eiFetchDataResolved(data, categoriesData, tagsData) ==
    /\ screen = "item" /\ eiFetch = "pending"
    /\ eiFormData' = eiLoadedFormData(data)
    /\ eiImageUri' = IF "imageUrl" \in DOMAIN data THEN data.imageUrl ELSE eiImageUri
    /\ eiCategories' = categoriesData
    /\ eiAllTags' = tagsData
    /\ eiLoading' = FALSE
    /\ eiFetch' = "resolved"
    /\ UNCHANGED <<screen, nsVars, epVars, lsVars, dtVars, eiId, eiNewTag, eiSaving,
                   eiError, eiCall, eiRoute>>

\* fetchData, one of the requests rejected.
eiFetchDataRejected ==
    /\ screen = "item" /\ eiFetch = "pending"
    /\ eiError' = "Failed to load item details. Please check your connection."
    /\ eiLoading' = FALSE
    /\ eiFetch' = "rejected"
    /\ UNCHANGED <<screen, nsVars, epVars, lsVars, dtVars, eiId, eiFormData, eiImageUri,
                   eiCategories, eiAllTags, eiNewTag, eiSaving, eiCall, eiRoute>>

\* handleChange without the spread of the previous form data.
eiChangedMutant(fd, field, value) ==
    [eiInitialFormData EXCEPT ![field] = value]

\* The form data handleChange(field, value) leaves behind.
eiChanged(fd, field, value) ==
    IF field = "quantity" \/ field = "price"
    THEN [fd EXCEPT ![field] = OrZero(parseFloat(value))]
    ELSE [fd EXCEPT ![field] = value]

\* The fields whose input calls handleChange: the SKU input has no
\* onChangeText (and editable = false).
eiEditableFields == {"name", "category", "quantity", "price", "description"}

\* handleChange(field, value), from the TextInputs (editable = !saving).
eiHandleChange(field, value) ==
    /\ eiIdle /\ ~eiSaving
    /\ field \in eiEditableFields
    /\ eiFormData' = eiChanged(eiFormData, field, value)
    /\ UNCHANGED <<screen, nsVars, epVars, lsVars, dtVars, eiId, eiImageUri, eiCategories,
                   eiAllTags, eiNewTag, eiLoading, eiSaving, eiError, eiFetch,
                   eiCall, eiRoute>>

\* selectCategory(category), from the category modal (opened while not saving).
eiSelectCategory(category) ==
    /\ eiIdle /\ ~eiSaving
    /\ eiFormData' = [eiFormData EXCEPT !.category = category]
    /\ UNCHANGED <<screen, nsVars, epVars, lsVars, dtVars, eiId, eiImageUri, eiCategories,
                   eiAllTags, eiNewTag, eiLoading, eiSaving, eiError, eiFetch,
                   eiCall, eiRoute>>

\* filterTags(text), from the tag modal's input.
eiFilterTags(text) ==
    /\ eiIdle /\ ~eiSaving
    /\ eiNewTag' = text
    /\ UNCHANGED <<screen, nsVars, epVars, lsVars, dtVars, eiId, eiFormData, eiImageUri,
                   eiCategories, eiAllTags, eiLoading, eiSaving, eiError, eiFetch,
                   eiCall, eiRoute>>

\* The tags with one more, unless they hold it already.
eiWithTag(fd, tag) ==
    IF tag \in Range(fd.tags) THEN fd ELSE [fd EXCEPT !.tags = Append(@, tag)]

\* handleAddTag, from the tag modal.
eiHandleAddTag ==
    /\ eiIdle /\ ~eiSaving
    /\ IF trim(eiNewTag) = <<>>
       THEN UNCHANGED <<eiFormData, eiNewTag>>
       ELSE /\ eiFormData' = eiWithTag(eiFormData, trim(eiNewTag))
            /\ eiNewTag' = <<>>
    /\ UNCHANGED <<screen, nsVars, epVars, lsVars, dtVars, eiId, eiImageUri, eiCategories,
                   eiAllTags, eiLoading, eiSaving, eiError, eiFetch, eiCall, eiRoute>>

\* selectTag(tag), from the tag modal's suggestions.
eiSelectTag(tag) ==
    /\ eiIdle /\ ~eiSaving
    /\ tag \in Range(eiAllTags)
    /\ eiFormData' = eiWithTag(eiFormData, tag)
    /\ eiNewTag' = <<>>
    /\ UNCHANGED <<screen, nsVars, epVars, lsVars, dtVars, eiId, eiImageUri, eiCategories,
                   eiAllTags, eiLoading, eiSaving, eiError, eiFetch, eiCall, eiRoute>>

\* handleRemoveTag(tagToRemove), from a tag's close button (never disabled).
eiHandleRemoveTag(tagToRemove) ==
    /\ eiIdle
    /\ tagToRemove \in Range(eiFormData.tags)
    /\ eiFormData' = [eiFormData EXCEPT
                        !.tags = SelectSeq(@, LAMBDA tag : tag # tagToRemove)]
    /\ UNCHANGED <<screen, nsVars, epVars, lsVars, dtVars, eiId, eiImageUri, eiCategories,
                   eiAllTags, eiNewTag, eiLoading, eiSaving, eiError, eiFetch,
                   eiCall, eiRoute>>

\* pickImage with a picture chosen, and the remove-image button (never disabled).
eiSetImageUri(uri) ==
    /\ eiIdle
    /\ IF uri = None THEN eiImageUri # None ELSE eiImageUri = None
    /\ eiImageUri' = uri
    /\ UNCHANGED <<screen, nsVars, epVars, lsVars, dtVars, eiId, eiFormData, eiCategories,
                   eiAllTags, eiNewTag, eiLoading, eiSaving, eiError, eiFetch,
                   eiCall, eiRoute>>

\* The error validateForm answers, or None.
eiValidateForm(fd) ==
    IF trim(fd.name) = <<>> THEN "Name is required"
    ELSE IF trim(fd.category) = <<>> THEN "Category is required"
    ELSE IF Lt(fd.quantity, Zero) THEN "Quantity cannot be negative"
    ELSE IF Lt(fd.price, Zero) THEN "Price cannot be negative"
    ELSE None

\* The body handleSubmit hands to itemsApi.update: multipart fields (every
\* entry of the form data but the tags as String(value), the tags as JSON when
\* there are some, and the picture) for a newly picked image, the form data
\* itself otherwise.
eiRequestBody(fd, imageUri) ==
    IF imageUri # None /\ imageUri \in eiPickedImages
    THEN [ kind        |-> "multipart",
           name        |-> fd.name,
           sku         |-> fd.sku,
           category    |-> fd.category,
           quantity    |-> toString(fd.quantity),
           price       |-> toString(fd.price),
           description |-> fd.description,
           tags        |-> IF Len(fd.tags) > 0 THEN <<fd.tags>> ELSE <<>>,
           image       |-> imageUri ]
    ELSE [ kind        |-> "json",
           name        |-> fd.name,
           sku         |-> fd.sku,
           category    |-> fd.category,
           quantity    |-> fd.quantity,
           price       |-> fd.price,
           description |-> fd.description,
           tags        |-> fd.tags ]

\* handleSubmit up to its await.
eiHandleSubmit ==
    /\ eiIdle /\ ~eiSaving
    /\ eiId # None
    /\ LET validationError == eiValidateForm(eiFormData)
       IN  IF validationError # None
           THEN /\ eiError' = validationError
                /\ UNCHANGED <<eiSaving, eiCall>>
           ELSE /\ eiSaving' = TRUE
                /\ eiError' = None
                /\ eiCall' = <<[id |-> eiId, item |-> eiRequestBody(eiFormData, eiImageUri)]>>
    /\ UNCHANGED <<screen, nsVars, epVars, lsVars, dtVars, eiId, eiFormData, eiImageUri,
                   eiCategories, eiAllTags, eiNewTag, eiLoading, eiFetch, eiRoute>>

\* handleSubmit after the await, itemsApi.update resolved.
eiUpdateResolved ==
    /\ screen = "item" /\ eiCall # <<>>
    /\ eiRoute' = "/inventory/id"
    /\ eiSaving' = FALSE
    /\ eiCall' = <<>>
    /\ UNCHANGED <<screen, nsVars, epVars, lsVars, dtVars, eiId, eiFormData, eiImageUri,
                   eiCategories, eiAllTags, eiNewTag, eiLoading, eiError, eiFetch>>

\* handleSubmit after the await, itemsApi.update rejected.
eiUpdateRejected ==
    /\ screen = "item" /\ eiCall # <<>>
    /\ eiError' = "Failed to update item. Please try again."
    /\ eiSaving' = FALSE
    /\ eiCall' = <<>>
    /\ UNCHANGED <<screen, nsVars, epVars, lsVars, dtVars, eiId, eiFormData, eiImageUri,
                   eiCategories, eiAllTags, eiNewTag, eiLoading, eiFetch, eiRoute>>

eiNext ==
    \/ eiFetchEffect
    \/ \E id \in DOMAIN eiBackendItems :
          id = eiId /\ eiFetchDataResolved(eiBackendItems[id], eiBackendCategories,
                                           eiBackendTags)
    \/ eiFetchDataRejected
    \/ \E value \in eiNameTexts : eiHandleChange("name", value)
    \/ \E value \in eiCategoryTexts : eiHandleChange("category", value)
    \/ \E value \in eiQuantityTexts : eiHandleChange("quantity", value)
    \/ \E value \in eiPriceTexts : eiHandleChange("price", value)
    \/ \E value \in eiDescriptionTexts : eiHandleChange("description", value)
    \/ \E category \in Range(eiCategories) \cup {eiFormData.category} :
          eiSelectCategory(category)
    \/ \E text \in eiTagTexts : eiFilterTags(text)
    \/ eiHandleAddTag
    \/ \E tag \in Range(eiBackendTags) : eiSelectTag(tag)
    \/ \E tag \in Range(eiFormData.tags) : eiHandleRemoveTag(tag)
    \/ \E uri \in eiPickedImages \cup {None} : eiSetImageUri(uri)
    \/ eiHandleSubmit
    \/ eiUpdateResolved
    \/ eiUpdateRejected

----------------------------------------------------------------------------
(* SalesList, PurchasesList, InventoryList: the list screens *)

\* Most delete calls a list has in flight in the model.
MaxCalls == 2

\* String.prototype.toLowerCase, for the letters that texts of the model hold.
UpperChars == <<"A", "B", "C", "S">>
LowerChars == <<"a", "b", "c", "s">>

toLowerCase(text) ==
    [i \in 1..Len(text) |->
        IF \E k \in 1..Len(UpperChars) : UpperChars[k] = text[i]
        THEN LowerChars[CHOOSE k \in 1..Len(UpperChars) : UpperChars[k] = text[i]]
        ELSE text[i]]

\* String.prototype.includes
includes(text, part) ==
    \E i \in 0..(Len(text) - Len(part)) : SubSeq(text, i + 1, i + Len(part)) = part

\* What salesApi.getAll(), purchasesApi.getAll() and itemsApi.getAll() answer
\* the list screens with.  The second sale has no customer name, the second
\* purchase no invoice number, the second item no tags.
lsBackendSales ==
    << [_id |-> <<"s", "1">>, customerName |-> <<"A", "b">>],
       [_id |-> <<"s", "2">>],
       [_id |-> <<"a", "3">>, customerName |-> <<"C", "a", "b">>] >>

lsBackendPurchases ==
    << [_id |-> <<"s", "1">>, supplier |-> [name |-> <<"A", "b">>],
        invoiceNumber |-> <<"C", "7">>],
       [_id |-> <<"s", "2">>, supplier |-> [name |-> <<>>]],
       [_id |-> <<"a", "3">>, supplier |-> [name |-> <<"C", "a", "b">>],
        invoiceNumber |-> <<"1">>] >>

lsBackendItems ==
    << [_id |-> <<"s", "1">>, name |-> <<"A", "b">>, sku |-> <<"S", "-", "1">>,
        category |-> <<"c">>, tags |-> << <<"B">>, <<"x">> >>],
       [_id |-> <<"s", "2">>, name |-> <<"C", "a", "b">>, sku |-> <<"S", "-", "2">>,
        category |-> <<"a">>] >>

lsBackendDocs ==
    IF screen = "salesList" THEN lsBackendSales
    ELSE IF screen = "purchasesList" THEN lsBackendPurchases
    ELSE lsBackendItems

\* What the user types into the search input.
lsQueryTexts == { <<>>, <<"a">>, <<"A", "B">>, <<"S">>, <<"1">> }

lsListScreens == {"salesList", "purchasesList", "inventoryList"}

lsInit ==
    /\ lsDocs = <<>>
    /\ lsFiltered = <<>>
    /\ lsSearchQuery = <<>>
    /\ lsLoading = TRUE
    /\ lsError = None
    /\ lsFilterDue = TRUE
    /\ lsAlert = None
    /\ lsAnswer = None
    /\ lsCalls = <<>>

\* The test of the filter of SalesList: the customer name in lower case, or
\* the id as it is, includes the query in lower case.
slMatches(sale, lowerCaseQuery) ==
    \/ /\ "customerName" \in DOMAIN sale /\ sale.customerName # <<>>
       /\ includes(toLowerCase(sale.customerName), lowerCaseQuery)
    \/ /\ "_id" \in DOMAIN sale /\ sale._id # <<>>
       /\ includes(sale._id, lowerCaseQuery)

\* The test of the filter of PurchasesList.
plMatches(purchase, lowerCaseQuery) ==
    \/ /\ purchase.supplier.name # <<>>
       /\ includes(toLowerCase(purchase.supplier.name), lowerCaseQuery)
    \/ /\ "invoiceNumber" \in DOMAIN purchase /\ purchase.invoiceNumber # <<>>
       /\ includes(toLowerCase(purchase.invoiceNumber), lowerCaseQuery)
    \/ /\ "_id" \in DOMAIN purchase /\ purchase._id # <<>>
       /\ includes(purchase._id, lowerCaseQuery)

\* The test of the filter of InventoryList.
ilMatches(item, lowerCaseQuery) ==
    \/ includes(toLowerCase(item.name), lowerCaseQuery)
    \/ includes(toLowerCase(item.sku), lowerCaseQuery)
    \/ includes(toLowerCase(item.category), lowerCaseQuery)
    \/ /\ "tags" \in DOMAIN item
       /\ \E k \in 1..Len(item.tags) : includes(toLowerCase(item.tags[k]), lowerCaseQuery)

lsMatches(doc, lowerCaseQuery) ==
    IF screen = "salesList" THEN slMatches(doc, lowerCaseQuery)
    ELSE IF screen = "purchasesList" THEN plMatches(doc, lowerCaseQuery)
    ELSE ilMatches(doc, lowerCaseQuery)

\* The list the filter effect stores.
lsFilter(docs, searchQuery) ==
    IF searchQuery # <<>>
    THEN SelectSeq(docs, LAMBDA doc : lsMatches(doc, toLowerCase(searchQuery)))
    ELSE docs

\* Mutant of lsDepsChanged: the full list is missing from the dependency list.
lsDepsChangedMutant(queryChanged, docsReplaced) == queryChanged

\* The dependency list [searchQuery, sales] of the filter effect: it is due
\* when the query changed or the full list was replaced.
lsDepsChanged(queryChanged, docsReplaced) == queryChanged \/ docsReplaced

\* The list is rendered, no effect is due and no dialog is open.
lsIdle == screen \in lsListScreens /\ ~lsLoading /\ ~lsFilterDue /\ lsAlert = None

\* The filter effect.
lsFilterEffect ==
    /\ screen \in lsListScreens
    /\ lsFilterDue
    /\ lsFiltered' = lsFilter(lsDocs, lsSearchQuery)
    /\ lsFilterDue' = lsDepsChanged(FALSE, FALSE)
    /\ UNCHANGED <<screen, nsVars, epVars, eiVars, dtVars, lsDocs, lsSearchQuery, lsLoading,
                   lsError, lsAlert, lsAnswer, lsCalls>>

\* fetchSales / fetchPurchases / fetchItems, getAll() resolved.
lsFetchResolved(data) ==
    /\ screen \in lsListScreens /\ lsLoading /\ ~lsFilterDue
    /\ lsDocs' = data
    /\ lsFiltered' = data
    /\ lsLoading' = FALSE
    /\ lsFilterDue' = lsDepsChanged(FALSE, TRUE)
    /\ UNCHANGED <<screen, nsVars, epVars, eiVars, dtVars, lsSearchQuery, lsError, lsAlert,
                   lsAnswer, lsCalls>>

\* The message the list sets when its documents cannot be loaded.
lsLoadError ==
    IF screen = "salesList" THEN "Failed to load sales. Please check your connection."
    ELSE IF screen = "purchasesList"
    THEN "Failed to load purchases. Please check your connection."
    ELSE "Failed to load inventory. Please check your connection."

\* fetchSales / fetchPurchases / fetchItems, getAll() rejected.
lsFetchRejected ==
    /\ screen \in lsListScreens /\ lsLoading /\ ~lsFilterDue
    /\ lsError' = lsLoadError
    /\ lsLoading' = FALSE
    /\ UNCHANGED <<screen, nsVars, epVars, eiVars, dtVars, lsDocs, lsFiltered, lsSearchQuery,
                   lsFilterDue, lsAlert, lsAnswer, lsCalls>>

\* setSearchQuery, from the search input.
lsSetSearchQuery(text) ==
    /\ lsIdle
    /\ text # lsSearchQuery
    /\ lsSearchQuery' = text
    /\ lsFilterDue' = lsDepsChanged(TRUE, FALSE)
    /\ UNCHANGED <<screen, nsVars, epVars, eiVars, dtVars, lsDocs, lsFiltered, lsLoading,
                   lsError, lsAlert, lsAnswer, lsCalls>>

\* handleDelete(id), from the trash button of a document of the list shown:
\* the confirmation dialog opens.
lsHandleDelete(id) ==
    /\ lsIdle /\ screen # "inventoryList"
    /\ \E k \in 1..Len(lsFiltered) : lsFiltered[k]._id = id
    /\ lsAlert' = id
    /\ UNCHANGED <<screen, nsVars, epVars, eiVars, dtVars, lsDocs, lsFiltered, lsSearchQuery,
                   lsLoading, lsError, lsFilterDue, lsAnswer, lsCalls>>

\* The dialog's "Cancel" button.
lsAlertCancel ==
    /\ screen \in lsListScreens /\ lsAlert # None
    /\ lsAlert' = None
    /\ lsAnswer' = "Cancel"
    /\ UNCHANGED <<screen, nsVars, epVars, eiVars, dtVars, lsDocs, lsFiltered, lsSearchQuery,
                   lsLoading, lsError, lsFilterDue, lsCalls>>

\* The dialog's "Delete" button: onPress up to its await.
lsAlertDelete ==
    /\ screen \in lsListScreens /\ lsAlert # None
    /\ Len(lsCalls) < MaxCalls
    /\ lsAlert' = None
    /\ lsAnswer' = "Delete"
    /\ lsCalls' = Append(lsCalls, lsAlert)
    /\ UNCHANGED <<screen, nsVars, epVars, eiVars, dtVars, lsDocs, lsFiltered, lsSearchQuery,
                   lsLoading, lsError, lsFilterDue>>

\* onPress after the await, the delete call resolved.
lsDeleteResolved(call) ==
    /\ screen \in lsListScreens /\ ~lsFilterDue
    /\ call \in 1..Len(lsCalls)
    /\ lsDocs' = SelectSeq(lsDocs, LAMBDA doc : doc._id # lsCalls[call])
    /\ lsFilterDue' = lsDepsChanged(FALSE, TRUE)
    /\ lsCalls' = RemoveAt(lsCalls, call - 1)
    /\ UNCHANGED <<screen, nsVars, epVars, eiVars, dtVars, lsFiltered, lsSearchQuery,
                   lsLoading, lsError, lsAlert, lsAnswer>>

\* The message the list sets when a delete fails.
lsDeleteError ==
    IF screen = "salesList" THEN "Failed to delete sale. Please try again."
    ELSE "Failed to delete purchase. Please try again."

\* Mutant of lsDeleteRejected: the document is taken off the list although
\* the delete failed.
lsDeleteRejectedMutant(call) ==
    /\ screen \in lsListScreens /\ ~lsFilterDue
    /\ call \in 1..Len(lsCalls)
    /\ lsError' = lsDeleteError
    /\ lsDocs' = SelectSeq(lsDocs, LAMBDA doc : doc._id # lsCalls[call])
    /\ lsFilterDue' = lsDepsChanged(FALSE, TRUE)
    /\ lsCalls' = RemoveAt(lsCalls, call - 1)
    /\ UNCHANGED <<screen, nsVars, epVars, eiVars, dtVars, lsFiltered, lsSearchQuery,
                   lsLoading, lsAlert, lsAnswer>>

\* onPress after the await, the delete call rejected.
lsDeleteRejected(call) ==
    /\ screen \in lsListScreens /\ ~lsFilterDue
    /\ call \in 1..Len(lsCalls)
    /\ lsError' = lsDeleteError
    /\ lsCalls' = RemoveAt(lsCalls, call - 1)
    /\ UNCHANGED <<screen, nsVars, epVars, eiVars, dtVars, lsDocs, lsFiltered, lsSearchQuery,
                   lsLoading, lsFilterDue, lsAlert, lsAnswer>>

lsNext ==
    \/ lsFilterEffect
    \/ lsFetchResolved(lsBackendDocs)
    \/ lsFetchRejected
    \/ \E text \in lsQueryTexts : lsSetSearchQuery(text)
    \/ \E k \in 1..Len(lsDocs) : lsHandleDelete(lsDocs[k]._id)
    \/ lsAlertCancel
    \/ lsAlertDelete
    \/ \E call \in 1..MaxCalls : lsDeleteResolved(call)
    \/ \E call \in 1..MaxCalls : lsDeleteRejected(call)

----------------------------------------------------------------------------
(* SaleDetail, PurchaseDetail, InventoryDetail: the detail screens *)

dtDetailScreens == {"saleDetail", "purchaseDetail", "itemDetail"}

\* What salesApi.getById(id), purchasesApi.getById(id) and itemsApi.getById(id)
\* answer the detail screens with.
dtBackendDoc(id) == [_id |-> id]

dtInit ==
    /\ dtId \in {"d1", "d2", None}
    /\ dtDoc = NoItem
    /\ dtLoading = TRUE
    /\ dtError = None
    /\ dtFetch = "due"
    /\ dtAlert = FALSE
    /\ dtCall = <<>>
    /\ dtRoute = "detail"

\* The fetch effect, run once after mount: fetchSale / fetchPurchase /
\* fetchItem up to its await.  With no id it returns before the try block, so
\* that the finally branch, which ends loading, is not reached.
dtFetchEffect ==
    /\ screen \in dtDetailScreens /\ dtFetch = "due"
    /\ dtFetch' = IF dtId = None THEN "returned" ELSE "pending"
    /\ UNCHANGED <<screen, nsVars, epVars, eiVars, lsVars, dtId, dtDoc, dtLoading, dtError,
                   dtAlert, dtCall, dtRoute>>

\* The fetch, getById(id) resolved.
dtFetchResolved(data) ==
    /\ screen \in dtDetailScreens /\ dtFetch = "pending"
    /\ dtDoc' = data
    /\ dtLoading' = FALSE
    /\ dtFetch' = "done"
    /\ UNCHANGED <<screen, nsVars, epVars, eiVars, lsVars, dtId, dtError, dtAlert, dtCall,
                   dtRoute>>

\* The message a detail screen sets when its document cannot be loaded.
dtLoadError ==
    IF screen = "saleDetail"
    THEN "Failed to load sale details. The sale may have been deleted."
    ELSE IF screen = "purchaseDetail"
    THEN "Failed to load purchase details. The purchase may have been deleted."
    ELSE "Failed to load item details. The item may have been deleted."

\* The fetch, getById(id) rejected.
dtFetchRejected ==
    /\ screen \in dtDetailScreens /\ dtFetch = "pending"
    /\ dtError' = dtLoadError
    /\ dtLoading' = FALSE
    /\ dtFetch' = "done"
    /\ UNCHANGED <<screen, nsVars, epVars, eiVars, lsVars, dtId, dtDoc, dtAlert, dtCall,
                   dtRoute>>

\* The document is rendered, with its delete button: not the loading
\* indicator, not the error view (error || !sale), and the route is on it.
dtShown ==
    /\ screen \in dtDetailScreens /\ dtRoute = "detail"
    /\ ~dtLoading /\ dtError = None /\ dtDoc # NoItem

\* handleDelete, from the delete button: the confirmation dialog opens.
dtHandleDelete ==
    /\ dtShown /\ ~dtAlert
    /\ dtId # None
    /\ dtAlert' = TRUE
    /\ UNCHANGED <<screen, nsVars, epVars, eiVars, lsVars, dtId, dtDoc, dtLoading, dtError,
                   dtFetch, dtCall, dtRoute>>

\* The dialog's "Cancel" button.
dtAlertCancel ==
    /\ screen \in dtDetailScreens /\ dtAlert
    /\ dtAlert' = FALSE
    /\ UNCHANGED <<screen, nsVars, epVars, eiVars, lsVars, dtId, dtDoc, dtLoading, dtError,
                   dtFetch, dtCall, dtRoute>>

\* The dialog's "Delete" button: onPress up to its await.
dtAlertDelete ==
    /\ screen \in dtDetailScreens /\ dtAlert
    /\ Len(dtCall) < MaxCalls
    /\ dtAlert' = FALSE
    /\ dtCall' = Append(dtCall, dtId)
    /\ UNCHANGED <<screen, nsVars, epVars, eiVars, lsVars, dtId, dtDoc, dtLoading, dtError,
                   dtFetch, dtRoute>>

\* The route router.replace leads to after a delete.
dtListRoute ==
    IF screen = "saleDetail" THEN "/sales"
    ELSE IF screen = "purchaseDetail" THEN "/purchases"
    ELSE "/inventory"

\* onPress after the await, the delete call resolved.
dtDeleteResolved ==
    /\ screen \in dtDetailScreens /\ dtCall # <<>>
    /\ dtRoute' = dtListRoute
    /\ dtAlert' = FALSE
    /\ dtCall' = Tail(dtCall)
    /\ UNCHANGED <<screen, nsVars, epVars, eiVars, lsVars, dtId, dtDoc, dtLoading, dtError,
                   dtFetch>>

\* The message a detail screen sets when the delete fails.
dtDeleteError ==
    IF screen = "saleDetail" THEN "Failed to delete sale. Please try again."
    ELSE IF screen = "purchaseDetail" THEN "Failed to delete purchase. Please try again."
    ELSE "Failed to delete item. Please try again."

\* onPress after the await, the delete call rejected (the error is set while
\* the screen is still mounted).
dtDeleteRejected ==
    /\ screen \in dtDetailScreens /\ dtCall # <<>>
    /\ dtError' = IF dtRoute = "detail" THEN dtDeleteError ELSE dtError
    /\ dtCall' = Tail(dtCall)
    /\ UNCHANGED <<screen, nsVars, epVars, eiVars, lsVars, dtId, dtDoc, dtLoading, dtFetch,
                   dtAlert, dtRoute>>

dtNext ==
    \/ dtFetchEffect
    \/ dtFetchResolved(dtBackendDoc(dtId))
    \/ dtFetchRejected
    \/ dtHandleDelete
    \/ dtAlertCancel
    \/ dtAlertDelete
    \/ dtDeleteResolved
    \/ dtDeleteRejected

----------------------------------------------------------------------------
(* Properties *)

Max(a, b) == IF Lt(a, b) THEN b ELSE a

\* The sum of quantity x priceAtSale over the lines, counted from the first.
RECURSIVE SumOfSaleLines(_)
SumOfSaleLines(items) ==
    IF items = <<>> THEN Zero
    ELSE Add(Mul(Head(items).quantity, Head(items).priceAtSale), SumOfSaleLines(Tail(items)))

\* x percent of a.
Percent(a, x) == Div(Mul(a, x), Hundred)

\* The recalculate-totals effect has run on what the form now holds.
nsSettled == screen = "sale" /\ ~nsTotalsDue
epSettled == screen = "purchase" /\ epFetch # "due" /\ ~epTotalsDue

nsClampedTotal ==
    Max(Zero, Sub(Add(nsFormData.subtotal, nsFormData.taxAmount), nsFormData.discountAmount))

\* C1, as stated: once the sale's recomputation has run, total equals
\* max(0, subtotal + taxAmount - discountAmount), and total is never negative.
C1_TotalIsClampedSum ==
    /\ nsSettled => nsFormData.total = nsClampedTotal
    /\ ~Lt(nsFormData.total, Zero)

\* C1, amended: once the sale's recomputation has run, total equals
\* max(0, subtotal + taxAmount - discountAmount) whenever there is a line item
\* or the discount is not negative; total is never negative in any state.
C1_TotalIsClampedSumAmended ==
    /\ (nsSettled /\ (nsFormData.items # <<>> \/ Le(Zero, nsFormData.discountAmount)))
          => nsFormData.total = nsClampedTotal
    /\ ~Lt(nsFormData.total, Zero)

\* A settled sale whose discount exceeds subtotal + tax: the total is 0.
C1_Witness ==
    /\ nsSettled /\ nsFormData.items # <<>>
    /\ Gt(nsFormData.discountAmount, Add(nsFormData.subtotal, nsFormData.taxAmount))
    /\ nsFormData.total = Zero

\* C2: with a non-empty sale, once recomputation has run, subtotal is the sum
\* of quantity x priceAtSale over the lines and taxAmount is subtotal x taxRate / 100.
C2_SaleSubtotalAndTax ==
    (nsSettled /\ nsFormData.items # <<>>) =>
        /\ nsFormData.subtotal = SumOfSaleLines(nsFormData.items)
        /\ nsFormData.taxAmount = Percent(nsFormData.subtotal, nsFormData.taxRate)

\* Two lines, 2 x 10.00 and 1 x 5.00, at 7.5 percent: subtotal 25, tax 1.875.
C2_Witness ==
    /\ nsSettled /\ Len(nsFormData.items) = 2
    /\ nsFormData.items[1].quantity = Num(2, 1)
    /\ nsFormData.subtotal = Num(25, 1)
    /\ nsFormData.taxAmount = Num(1875, 1000)

\* C3: with a non-empty purchase, once recomputation has run, taxAmount is
\* subtotal x taxRate / 100 and total is subtotal + taxAmount + shippingCost,
\* not floored at zero.
C3_PurchaseTotal ==
    (epSettled /\ epFormData.items # <<>>) =>
        /\ epFormData.taxAmount = Percent(epFormData.subtotal, epFormData.taxRate)
        /\ epFormData.total =
              Add(epFormData.subtotal, Add(epFormData.taxAmount, epFormData.shippingCost))

\* One line of 10 x 2.50, tax rate 5, shipping 12: 25.00, 1.25 and 38.25.
C3_Witness ==
    /\ epSettled /\ Len(epFormData.items) = 1
    /\ "quantity" \in DOMAIN epFormData.items[1]
    /\ epFormData.items[1].quantity = Num(10, 1)
    /\ epFormData.items[1].costPerUnit = Num(250, 100)
    /\ epFormData.taxRate = Num(5, 1)
    /\ epFormData.shippingCost = Num(12, 1)
    /\ epFormData.subtotal = Num(25, 1)
    /\ epFormData.taxAmount = Num(125, 100)
    /\ epFormData.total = Num(3825, 100)

\* C4: with no line item, recomputation leaves subtotal = taxAmount = total = 0
\* in both forms, whatever the tax rate, discount or shipping cost, and the
\* recomputation step changes none of taxRate, discountAmount, shippingCost.
C4_EmptyIsZero ==
    /\ [](/\ (nsSettled /\ nsFormData.items = <<>>) =>
                /\ nsFormData.subtotal = Zero
                /\ nsFormData.taxAmount = Zero
                /\ nsFormData.total = Zero
          /\ (epSettled /\ epFormData.items = <<>>) =>
                /\ epFormData.subtotal = Zero
                /\ epFormData.taxAmount = Zero
                /\ epFormData.total = Zero)
    /\ [][/\ (nsTotalsDue /\ ~nsTotalsDue') =>
                /\ nsFormData'.taxRate = nsFormData.taxRate
                /\ nsFormData'.discountAmount = nsFormData.discountAmount
                /\ nsFormData'.items = nsFormData.items
          /\ (epTotalsDue /\ ~epTotalsDue') =>
                /\ epFormData'.taxRate = epFormData.taxRate
                /\ epFormData'.shippingCost = epFormData.shippingCost
                /\ epFormData'.items = epFormData.items]_vars

\* A purchase with no line and shipping 12, recomputed: its total is 0.
C4_Witness ==
    /\ epSettled /\ ~epLoading /\ epFormData.items = <<>>
    /\ epFormData.shippingCost = Num(12, 1)
    /\ epFormData.taxRate = Num(5, 1)
    /\ epFormData.total = Zero

nsAddItemRejections ==
    { "Please select an item", "Quantity must be a positive number",
      "Only N items available in stock" }

\* The selection handleAddItem accepts: an item, and a quantity text that
\* starts with a whole number between 1 and the item's on-hand quantity.
nsSelectionIsValid ==
    /\ nsSelectedItem # NoItem
    /\ LET quantity == parseInt(nsSelectedQuantity)
       IN  /\ ~isNaN(quantity)
           /\ quantity.d = 1
           /\ quantity.n \in 1..nsSelectedItem.quantity

\* C5: a sale line is added only from a valid selection; from any other one
\* the addition is rejected with an error message, and a rejection leaves the
\* line items, the selection and subtotal/taxAmount/total unchanged.
C5_SaleAddRejected ==
    [][/\ Len(nsFormData'.items) > Len(nsFormData.items) => nsSelectionIsValid
       /\ (nsError' # nsError /\ nsError' \in nsAddItemRejections) =>
             /\ ~nsSelectionIsValid
             /\ nsFormData' = nsFormData
             /\ nsSelectedItem' = nsSelectedItem
             /\ nsSelectedQuantity' = nsSelectedQuantity
             /\ nsTotalsDue' = nsTotalsDue]_vars

\* A quantity of 0 was rejected: the item is still selected, the text still there.
C5_Witness ==
    /\ nsError = "Quantity must be a positive number"
    /\ nsSelectedItem # NoItem
    /\ nsSelectedQuantity = <<"0">>

nsValidationErrors ==
    { "At least one item is required", "Sale total must be greater than zero" }

\* C6: salesApi.create is called only from a state with a line item and a
\* total > 0, and with that state's document; a submit that sets a validation
\* error sends nothing and leaves saving false.
C6_CreateOnlyWhenValid ==
    [][/\ (nsCall' # nsCall /\ nsCall' # <<>>) =>
             /\ nsFormData.items # <<>>
             /\ Gt(nsFormData.total, Zero)
             /\ nsCall' = <<nsFormData>>
       /\ (nsIdle /\ ~nsSaving /\ (nsFormData.items = <<>> \/ ~Gt(nsFormData.total, Zero))) =>
             /\ nsCall' = <<>>
             /\ nsSaving' = FALSE
       /\ (nsError' # nsError /\ nsError' \in nsValidationErrors) =>
             /\ nsFormData.items = <<>> \/ ~Gt(nsFormData.total, Zero)
             /\ nsCall' = nsCall
             /\ nsSaving' = FALSE]_vars

\* A create call is in flight.
C6_Witness ==
    /\ nsCall # <<>> /\ nsSaving
    /\ Gt(nsCall[1].total, Zero)

\* The quantity or weight of a purchase line.
epAmount(line) == IF "weight" \in DOMAIN line THEN line.weight ELSE line.quantity

\* C7, as stated: no line item in a document has a quantity or weight <= 0 or
\* a negative unit cost, in the purchase form as in the sale form.
C7_NoInvalidLine ==
    /\ \A i \in 1..Len(nsFormData.items) :
          /\ ~Le(nsFormData.items[i].quantity, Zero)
          /\ ~Lt(nsFormData.items[i].priceAtSale, Zero)
    /\ \A i \in 1..Len(epFormData.items) :
          /\ ~Le(epAmount(epFormData.items[i]), Zero)
          /\ ~Lt(epFormData.items[i].costPerUnit, Zero)

\* C8, as stated: no purchase line carries a NaN quantity, weight, costPerUnit
\* or totalCost, and the purchase's subtotal, taxAmount and total are numbers.
C8_NoNaN ==
    /\ \A i \in 1..Len(epFormData.items) :
          /\ ~isNaN(epAmount(epFormData.items[i]))
          /\ ~isNaN(epFormData.items[i].costPerUnit)
          /\ ~isNaN(epFormData.items[i].totalCost)
    /\ ~isNaN(epFormData.subtotal)
    /\ ~isNaN(epFormData.taxAmount)
    /\ ~isNaN(epFormData.total)

\* What a text stands for once coerced: its number, or 0 when it has none.
Coerced(text) == IF isNaN(parseFloat(text)) THEN Zero ELSE parseFloat(text)

\* C9: an edit of taxRate, discountAmount or shippingCost stores the number
\* the typed text stands for, 0 for text with no number in it; it sets no
\* error, and the recomputation is due with the stored value.
C9_CoercedToZero ==
    [][/\ (nsFormData'.taxRate # nsFormData.taxRate) =>
             /\ nsFormData'.taxRate \in {Coerced(t) : t \in TaxRateTexts}
             /\ nsError' = nsError /\ nsTotalsDue'
       /\ (nsFormData'.discountAmount # nsFormData.discountAmount) =>
             /\ nsFormData'.discountAmount \in {Coerced(t) : t \in DiscountTexts}
             /\ nsError' = nsError /\ nsTotalsDue'
       /\ (~epLoading /\ epFormData'.taxRate # epFormData.taxRate) =>
             /\ epFormData'.taxRate \in {Coerced(t) : t \in epTaxRateTexts}
             /\ epError' = epError /\ epTotalsDue'
       /\ (~epLoading /\ epFormData'.shippingCost # epFormData.shippingCost) =>
             /\ epFormData'.shippingCost \in {Coerced(t) : t \in epShippingTexts}
             /\ epError' = epError /\ epTotalsDue']_vars

\* The sale's tax rate, 7.5 at first, is 0 after unparseable text; so is the tax.
C9_Witness ==
    /\ nsSettled /\ nsFormData.items # <<>>
    /\ nsFormData.taxRate = Zero /\ nsFormData.taxAmount = Zero
    /\ nsError = None

\* C10: a step that changes the line items, taxRate, discountAmount or
\* shippingCost makes the recomputation due, and when it is due the next step
\* is the recomputation; a step that changes another field leaves subtotal,
\* taxAmount and total as they are.
C10_RecomputationFollows ==
    [][/\ (\/ nsFormData'.items # nsFormData.items
           \/ nsFormData'.taxRate # nsFormData.taxRate
           \/ nsFormData'.discountAmount # nsFormData.discountAmount) => nsTotalsDue'
       /\ (screen = "sale" /\ nsTotalsDue) =>
             /\ ~nsTotalsDue'
             /\ nsFormData'.subtotal = SumOfSaleLines(nsFormData.items)
       /\ (\/ nsFormData'.customerName # nsFormData.customerName
           \/ nsFormData'.paymentMethod # nsFormData.paymentMethod) =>
             /\ nsFormData'.subtotal = nsFormData.subtotal
             /\ nsFormData'.taxAmount = nsFormData.taxAmount
             /\ nsFormData'.total = nsFormData.total
             /\ ~nsTotalsDue'
       /\ (\/ epFormData'.items # epFormData.items
           \/ epFormData'.taxRate # epFormData.taxRate
           \/ epFormData'.shippingCost # epFormData.shippingCost) => epTotalsDue'
       /\ (screen = "purchase" /\ epFetch # "due" /\ epTotalsDue) => ~epTotalsDue'
       /\ (~epLoading /\ epFormData'.supplier # epFormData.supplier) =>
             /\ epFormData'.subtotal = epFormData.subtotal
             /\ epFormData'.taxAmount = epFormData.taxAmount
             /\ epFormData'.total = epFormData.total
             /\ ~epTotalsDue']_vars

\* The discount was edited and the recomputation is due: the total is the old one.
C10_Witness ==
    /\ screen = "sale" /\ nsTotalsDue
    /\ nsFormData.items # <<>>
    /\ nsFormData.discountAmount = Num(2, 1)
    /\ nsFormData.total = Add(nsFormData.subtotal, nsFormData.taxAmount)

\* A step of the recalculate-totals effect, of the fetch effect or of the
\* fetch's completion: every other step of a form is an input handler (or the
\* completion of the request a handler sent).
nsEffectStep == nsTotalsDue /\ ~nsTotalsDue'
epEffectStep == (epTotalsDue /\ ~epTotalsDue') \/ epFetch' # epFetch

IsBlank(text) == \A i \in 1..Len(text) : text[i] = " "

epValidationErrors == { "Supplier name is required", "At least one item is required" }

\* C12, as stated: purchasesApi.update is called only from a state whose
\* supplier name is not blank and whose line-item sequence is not empty, and a
\* save that sets a validation error sends nothing and leaves saving false.
C12_UpdateOnlyWhenValid ==
    [][/\ (epCall' # epCall /\ epCall' # <<>>) =>
             /\ ~IsBlank(epFormData.supplier.name)
             /\ epFormData.items # <<>>
       /\ (epError' # epError /\ epError' \in epValidationErrors) =>
             /\ epCall' = epCall
             /\ epSaving' = FALSE]_vars

\* quantity x costPerUnit of a line that carries a quantity, weight x costPerUnit
\* of one that carries a weight.
epLineProduct(line) == Mul(epAmount(line), line.costPerUnit)

\* C13, as stated: a line appended by the edit-purchase form has totalCost =
\* quantity x costPerUnit, or weight x costPerUnit for a weight-tracked item,
\* of the numbers stored in that line, whatever its weight unit.
C13_LineTotalIsProduct ==
    [][(Len(epFormData'.items) > Len(epFormData.items) /\ ~epLoading) =>
          LET line == epFormData'.items[Len(epFormData'.items)]
          IN  line.totalCost = epLineProduct(line)]_vars

\* The sum of the lines' stored totalCost, counted from the first.
RECURSIVE SumOfTotalCosts(_)
SumOfTotalCosts(items) ==
    IF items = <<>> THEN Zero
    ELSE Add(Head(items).totalCost, SumOfTotalCosts(Tail(items)))

\* C14: once recomputation has run on a purchase with line items, subtotal is
\* the sum of the lines' stored totalCost, also for a line whose stored
\* totalCost is not its quantity x costPerUnit.
C14_SubtotalOfStoredTotals ==
    (epSettled /\ epFormData.items # <<>>) =>
        epFormData.subtotal = SumOfTotalCosts(epFormData.items)

\* The loaded line of 4 x 2.50 with a stored totalCost of 8, next to an added
\* line of 10 x 2.50: the subtotal is 8 + 25.
C14_Witness ==
    /\ epSettled /\ Len(epFormData.items) = 2
    /\ epFormData.items[1].totalCost = Num(8, 1)
    /\ epLineProduct(epFormData.items[1]) = Num(10, 1)
    /\ epFormData.items[2].totalCost = Num(25, 1)
    /\ epFormData.subtotal = Num(33, 1)

\* The fields of a purchase line that say how much was bought.
epAmountFields(line) == DOMAIN line \cap {"quantity", "weight", "weightUnit"}

\* C15: the line the edit-purchase form appends carries weight and weightUnit
\* and no quantity when the selected item's trackingType is 'weight', and
\* quantity alone otherwise, also for an item that has no trackingType.
C15_QuantityOrWeight ==
    [][(Len(epFormData'.items) > Len(epFormData.items) /\ ~epLoading) =>
          LET line == epFormData'.items[Len(epFormData'.items)]
          IN  /\ line.item = epSelectedItem._id
              /\ epAmountFields(line) =
                    IF epSelectedItem.trackingType = "weight"
                    THEN {"weight", "weightUnit"}
                    ELSE {"quantity"}
              /\ "weightUnit" \in DOMAIN line => line.weightUnit = epWeightUnit]_vars

\* A line of the item that has no trackingType: it carries a quantity.
C15_Witness ==
    \E i \in 1..Len(epFormData.items) :
        /\ epFormData.items[i].item = "C"
        /\ epAmountFields(epFormData.items[i]) = {"quantity"}

\* The on-hand quantity of an item in the catalog the backend answered with.
OnHand(id) == BackendItems[CHOOSE i \in 1..Len(BackendItems) : BackendItems[i]._id = id].quantity

\* C16: every line of the new-sale form has a whole quantity between 1 and
\* the on-hand quantity its item has in the loaded catalog, and the items
\* offered for selection, and the selected one, have an on-hand quantity > 0.
C16_SaleQuantityInStock ==
    /\ \A i \in 1..Len(nsFormData.items) :
          LET line == nsFormData.items[i]
          IN  /\ line.quantity.d = 1
              /\ line.quantity.n \in 1..OnHand(line.item)
    /\ \A i \in 1..Len(nsAvailableItems) : nsAvailableItems[i].quantity > 0
    /\ nsSelectedItem # NoItem =>
          /\ nsSelectedItem \in Range(nsAvailableItems)
          /\ nsSelectedItem.quantity > 0

\* A line that takes the whole stock of its item (2 of 2), and the catalog
\* without the item that is out of stock.
C16_Witness ==
    /\ Len(nsFormData.items) = 1
    /\ nsFormData.items[1].item = "A"
    /\ nsFormData.items[1].quantity = Num(OnHand("A"), 1)
    /\ Len(nsAvailableItems) = 2
    /\ nsSelectedItem # NoItem

\* C17: a step of the new-sale form leaves the line items as they are, or
\* appends one line whose item and priceAtSale are the selected item's id and
\* price and whose quantity is the one typed, or removes one line and keeps
\* the others, in order, as they were.
C17_LinesAreFrozen ==
    [][LET old == nsFormData.items
           new == nsFormData'.items
       IN  /\ Len(new) > Len(old) =>
                 new = Append(old, [ item        |-> nsSelectedItem._id,
                                     quantity    |-> parseInt(nsSelectedQuantity),
                                     priceAtSale |-> nsSelectedItem.price ])
           /\ Len(new) = Len(old) => new = old
           /\ Len(new) < Len(old) =>
                 \E index \in 0..(Len(old) - 1) : new = RemoveAt(old, index)]_vars

\* A line of item A at 10.00 is in the sale, the discount has been edited,
\* and another item, priced 5.00, is selected.
C17_Witness ==
    /\ Len(nsFormData.items) = 1
    /\ nsFormData.items[1] = [item |-> "A", quantity |-> Num(1, 1), priceAtSale |-> Num(10, 1)]
    /\ nsFormData.discountAmount = Num(50, 1)
    /\ nsFormData.taxRate = Zero
    /\ nsSelectedItem # NoItem /\ nsSelectedItem.price = Num(5, 1)

\* C18: in every state of either form, recomputing twice gives what
\* recomputing once gives, and recomputing a state that recomputation has
\* produced changes none of subtotal, taxAmount and total.
C18_RecomputationIdempotent ==
    /\ nsRecalculated(nsRecalculated(nsFormData)) = nsRecalculated(nsFormData)
    /\ epRecalculated(epRecalculated(epFormData)) = epRecalculated(epFormData)
    /\ nsSettled => nsRecalculated(nsFormData) = nsFormData
    /\ epSettled => epRecalculated(epFormData) = epFormData

\* A recomputed sale of two lines with tax and a discount that a second
\* recomputation leaves as it is.
C18_Witness ==
    /\ nsSettled /\ Len(nsFormData.items) = 2
    /\ nsFormData.taxRate = Num(15, 2)
    /\ nsFormData.discountAmount = Num(-5, 1)
    /\ Gt(nsFormData.total, nsFormData.subtotal)
    /\ nsRecalculated(nsFormData) = nsFormData

\* The request in flight ends without the screen being left: it was rejected.
nsRejectionStep == nsCall # <<>> /\ nsCall' = <<>> /\ nsRoute' = nsRoute
epRejectionStep == epCall # <<>> /\ epCall' = <<>> /\ epRoute' = epRoute

\* C19: when the backend rejects the create or the update, the form sets its
\* error message and saving becomes false; the form data is left as it is
\* and is the document that was sent; and the form is then in a state where
\* submit (or save) is accepted and passes validation again.
C19_RejectionIsRecoverable ==
    [][/\ nsRejectionStep =>
             /\ nsError' = "Failed to create sale. Please try again."
             /\ nsSaving' = FALSE
             /\ nsFormData' = nsFormData
             /\ nsFormData' = nsCall[1]
             /\ nsRoute' = "new" /\ ~nsLoading' /\ ~nsTotalsDue'
             /\ nsValidateForm(nsFormData') = None
       /\ epRejectionStep =>
             /\ epError' = "Failed to update purchase. Please try again."
             /\ epSaving' = FALSE
             /\ epFormData' = epFormData
             /\ epFormData' = epCall[1]
             /\ epRoute' = "edit" /\ ~epLoading' /\ ~epTotalsDue' /\ ~epCostDue'
             /\ epSaveError(epFormData') = None]_vars

\* A purchase whose update was rejected: the error is shown, nothing is being
\* saved, and the line items are still there.
C19_Witness ==
    /\ epError = "Failed to update purchase. Please try again."
    /\ ~epSaving /\ epCall = <<>> /\ epRoute = "edit"
    /\ Len(epFormData.items) = 2
    /\ epSaveError(epFormData) = None

\* The sale of the example: 2 x 10.00 and 1 x 5.00, tax rate 7.5, discount 2.00.
nsExampleSale ==
    /\ nsFormData.items =
          << [item |-> "A", quantity |-> Num(2, 1), priceAtSale |-> Num(10, 1)],
             [item |-> "B", quantity |-> Num(1, 1), priceAtSale |-> Num(5, 1)] >>
    /\ nsFormData.taxRate = Num(75, 10)
    /\ nsFormData.discountAmount = Num(2, 1)

\* C20: once recomputation has run on the sale of the example, the stored
\* subtotal is 25, the stored taxAmount 1.875 and the stored total 24.875:
\* nothing is rounded to cents.
C20_StoredUnrounded ==
    (nsSettled /\ nsExampleSale) =>
        /\ nsFormData.subtotal = Num(25, 1)
        /\ nsFormData.taxAmount = Num(1875, 1000)
        /\ nsFormData.total = Num(24875, 1000)

\* The sale of the example, recomputed, being sent with its total of 24.875.
C20_Witness ==
    /\ nsSettled /\ nsExampleSale
    /\ nsCall # <<>>
    /\ nsCall[1].total = Num(24875, 1000)

\* The SKU the backend holds for the item the form was opened on.
eiLoadedSku == eiBackendItems[eiId].sku

\* C21: once the item is loaded the form's sku is the loaded one and no step
\* changes it, whatever the user edits, and every update request carries the
\* route's id and the loaded SKU, as JSON and as multipart alike.
C21_SkuImmutable ==
    [][/\ (eiFetch = "pending" /\ eiFetch' = "resolved") => eiFormData'.sku = eiLoadedSku
       /\ eiFetch = "resolved" =>
             /\ eiFetch' = "resolved"
             /\ eiFormData'.sku = eiFormData.sku
             /\ eiFormData.sku = eiLoadedSku
             /\ \A i \in 1..Len(eiCall') :
                   eiCall'[i].id = eiId /\ eiCall'[i].item.sku = eiLoadedSku]_vars

\* The second item was loaded, its name, quantity, price and tags were edited
\* and a picture was picked, and the update request is in flight.
C21_Witness ==
    /\ screen = "item" /\ eiFetch = "resolved" /\ eiId = "i2"
    /\ eiCall # <<>>
    /\ eiCall[1].item.kind = "multipart"
    /\ eiCall[1].item.sku = "SKU-2"
    /\ eiFormData.name = <<"B">>
    /\ eiFormData.price = Num(4, 1)
    /\ eiFormData.tags # <<>>

\* C22: while a save is in flight no step changes the form's document or its
\* pending selection and no second request is sent: each form has at most one
\* request outstanding, saving is true exactly while it is, and the document
\* in flight is the form's document until the response arrives.
C22_FrozenWhileSaving ==
    [][/\ nsSaving =>
             /\ nsFormData' = nsFormData
             /\ nsSelectedItem' = nsSelectedItem
             /\ nsSelectedQuantity' = nsSelectedQuantity
             /\ nsCall' = nsCall \/ nsCall' = <<>>
       /\ Len(nsCall') <= 1
       /\ nsSaving' <=> nsCall' # <<>>
       /\ nsCall' # <<>> => nsCall'[1] = nsFormData'
       /\ epSaving =>
             /\ epFormData' = epFormData
             /\ epSelectedItem' = epSelectedItem
             /\ <<epQuantity', epWeight', epWeightUnit', epCostPerUnit', epTotalCost'>>
                   = <<epQuantity, epWeight, epWeightUnit, epCostPerUnit, epTotalCost>>
             /\ epCall' = epCall \/ epCall' = <<>>
       /\ Len(epCall') <= 1
       /\ epSaving' <=> epCall' # <<>>
       /\ epCall' # <<>> => epCall'[1] = epFormData']_vars

\* A sale of one line is being saved while an item is selected for a second
\* line: the add button, the trash button and the inputs are there, disabled.
C22_Witness ==
    /\ screen = "sale" /\ nsSaving
    /\ nsCall = <<nsFormData>>
    /\ Len(nsFormData.items) = 1
    /\ nsSelectedItem # NoItem
    /\ nsAddItemError(nsSelectedItem, nsSelectedQuantity) = None

\* A run of the recalculate-totals effect (every other step a form takes while
\* the effect is due is the completion of a request or the fetch effect).
nsRecomputationStep == screen = "sale" /\ nsTotalsDue /\ nsCall' = nsCall
epRecomputationStep ==
    screen = "purchase" /\ epTotalsDue /\ epFetch # "due" /\ epCall' = epCall

\* The fields of the form data that trigger the effect or that it leaves alone.
NotAggregates(fd) == DOMAIN fd \ {"subtotal", "taxAmount", "total"}

\* C23: a run of the recalculate-totals effect of either form changes no
\* field of the form data other than subtotal, taxAmount and total, and no
\* other state of the form, and leaves the effect not due: it runs once after
\* the step that made it due and does not trigger itself, in the empty-items
\* branch as in the other.
C23_EffectSettles ==
    [][/\ nsRecomputationStep =>
             /\ ~nsTotalsDue'
             /\ \A f \in NotAggregates(nsFormData) : nsFormData'[f] = nsFormData[f]
             /\ DOMAIN nsFormData' = DOMAIN nsFormData
             /\ <<nsSelectedItem', nsSelectedQuantity', nsError', nsSaving'>>
                   = <<nsSelectedItem, nsSelectedQuantity, nsError, nsSaving>>
       /\ epRecomputationStep =>
             /\ ~epTotalsDue'
             /\ \A f \in NotAggregates(epFormData) : epFormData'[f] = epFormData[f]
             /\ DOMAIN epFormData' = DOMAIN epFormData
             /\ <<epSelectedItem', epTotalCost', epError', epSaving'>>
                   = <<epSelectedItem, epTotalCost, epError, epSaving>>]_vars

\* The effect has run in its empty-items branch after the user typed a tax
\* rate and a discount into a sale with no line, and is not due.
C23_Witness ==
    /\ nsSettled /\ ~nsLoading
    /\ nsFormData.items = <<>>
    /\ nsFormData.taxRate = Num(15, 2)
    /\ nsFormData.discountAmount = Num(50, 1)
    /\ nsFormData.total = Zero
    /\ nsError = None

\* The quantity of one item over all the lines of a sale.
RECURSIVE QuantityInLines(_, _)
QuantityInLines(items, id) ==
    IF items = <<>> THEN Zero
    ELSE Add(IF Head(items).item = id THEN Head(items).quantity ELSE Zero,
             QuantityInLines(Tail(items), id))

\* C24: the stock check of the new-sale form looks at the line being added
\* only.  A step sets the stock error only when the quantity typed for the
\* selected item exceeds its on-hand quantity; from a selection whose own
\* quantity is between 1 and the on-hand quantity no step sets an add-item
\* error, whatever the lines already hold of the item; and submission is
\* rejected only for an empty sale or a total that is not positive.
C24_CeilingPerLine ==
    [][screen = "sale" =>
         /\ (nsError' # nsError /\ nsError' = "Only N items available in stock") =>
               /\ nsSelectedItem # NoItem
               /\ Gt(parseInt(nsSelectedQuantity), Num(nsSelectedItem.quantity, 1))
         /\ (nsError' # nsError /\ nsSelectionIsValid) =>
               nsError' \notin nsAddItemRejections
         /\ (nsSelectionIsValid /\ nsSelectedItem' = NoItem) =>
               /\ Len(nsFormData'.items) = Len(nsFormData.items) + 1
               /\ nsFormData'.items[Len(nsFormData'.items)].quantity
                     = parseInt(nsSelectedQuantity)
         /\ (nsError' # nsError /\ nsError' \in nsValidationErrors) =>
               \/ nsFormData.items = <<>>
               \/ Le(OrZero(nsFormData.total), Zero)]_vars

\* A sale with two lines of item A, 2 each, has passed validation and is being
\* sent: 4 of the item are sold while 2 are on hand.
C24_Witness ==
    /\ screen = "sale" /\ nsCall # <<>>
    /\ Len(nsCall[1].items) = 2
    /\ \A i \in 1..2 : /\ nsCall[1].items[i].item = "A"
                       /\ nsCall[1].items[i].quantity = Num(OnHand("A"), 1)
    /\ Gt(QuantityInLines(nsCall[1].items, "A"), Num(OnHand("A"), 1))
    /\ QuantityInLines(nsCall[1].items, "A") = Num(4, 1)

\* The form holds (or the request carries) the lines, the tax rate and the
\* shipping cost of a purchase as the backend answered it.
epAsLoaded(fd, purchase) ==
    /\ fd.items = purchase.items
    /\ fd.taxRate = purchase.taxRate
    /\ fd.shippingCost = purchase.shippingCost

\* The aggregates of a document are those computed from its own lines' stored
\* totalCost, its tax rate and its shipping cost.
epAggregatesOfLines(fd) ==
    /\ fd.subtotal = SumOfTotalCosts(fd.items)
    /\ fd.taxAmount = Percent(SumOfTotalCosts(fd.items), fd.taxRate)
    /\ fd.total = Add(SumOfTotalCosts(fd.items),
                      Add(Percent(SumOfTotalCosts(fd.items), fd.taxRate), fd.shippingCost))

\* C25: once the edit-purchase form has loaded a purchase and its effects have
\* run, the subtotal, taxAmount and total it holds for the loaded lines, tax
\* rate and shipping cost are the recomputed ones, whatever aggregates the
\* backend answered; and an update request that carries the loaded lines, tax
\* rate and shipping cost carries the recomputed aggregates.
C25_LoadedIsRecomputed ==
    \A purchase \in BackendPurchases :
        /\ (epSettled /\ epAsLoaded(epFormData, purchase)) => epAggregatesOfLines(epFormData)
        /\ \A i \in 1..Len(epCall) :
              epAsLoaded(epCall[i], purchase) => epAggregatesOfLines(epCall[i])

\* The loaded purchase is saved without an edit: the backend answered subtotal
\* 10, taxAmount 0.50 and total 22.50, the request carries 8, 0.40 and 20.40.
C25_Witness ==
    /\ screen = "purchase" /\ epCall # <<>>
    /\ \E purchase \in BackendPurchases :
          /\ epAsLoaded(epCall[1], purchase)
          /\ epCall[1].supplier = purchase.supplier
          /\ purchase.subtotal = Num(10, 1) /\ epCall[1].subtotal = Num(8, 1)
          /\ purchase.taxAmount = Num(1, 2) /\ epCall[1].taxAmount = Num(2, 5)
          /\ purchase.total = Num(45, 2)    /\ epCall[1].total = Num(102, 5)

\* new is old without its element at index (counted from 0): one shorter, the
\* elements before it where they were, those after it one place earlier.
IsWithout(new, old, index) ==
    /\ index \in 0..(Len(old) - 1)
    /\ Len(new) = Len(old) - 1
    /\ \A j \in 1..index : new[j] = old[j]
    /\ \A j \in (index + 1)..Len(new) : new[j] = old[j + 1]

\* new is old with one more element after its last.
IsWithOneMore(new, old) ==
    /\ Len(new) = Len(old) + 1
    /\ \A j \in 1..Len(old) : new[j] = old[j]

lsWithout(docs, id) == SelectSeq(docs, LAMBDA doc : doc._id # id)

\* C27: in the sales list and the purchases list, the full list changes after
\* loading only when a delete call that is in flight succeeds, and then loses
\* the document of that call's id and nothing else; a delete call is sent only
\* by the "Delete" button of the confirmation dialog, for the id the dialog
\* asks about; opening the dialog and closing it with "Cancel" send nothing
\* and change neither list nor error; and a delete call that ends otherwise
\* leaves the list as it is and sets the error message.
C27_DeleteAfterConfirm ==
    [][(screen = "salesList" \/ screen = "purchasesList") =>
         /\ (lsDocs' # lsDocs /\ ~lsLoading) =>
               \E call \in 1..Len(lsCalls) :
                  /\ lsCalls' = RemoveAt(lsCalls, call - 1)
                  /\ lsDocs' = lsWithout(lsDocs, lsCalls[call])
                  /\ lsError' = lsError
         /\ Len(lsCalls') > Len(lsCalls) =>
               /\ lsAlert # None /\ lsAlert' = None /\ lsAnswer' = "Delete"
               /\ lsCalls' = Append(lsCalls, lsAlert)
               /\ lsDocs' = lsDocs
         /\ (lsAlert # None /\ lsAlert' = None /\ lsAnswer' = "Cancel") =>
               /\ lsCalls' = lsCalls
               /\ lsDocs' = lsDocs /\ lsFiltered' = lsFiltered /\ lsError' = lsError
         /\ (lsAlert = None /\ lsAlert' # None) =>
               /\ lsCalls' = lsCalls
               /\ lsDocs' = lsDocs /\ lsFiltered' = lsFiltered /\ lsError' = lsError
         /\ Len(lsCalls') < Len(lsCalls) =>
               \/ (\E call \in 1..Len(lsCalls) :
                      lsDocs' = lsWithout(lsDocs, lsCalls[call]) /\ lsError' = lsError)
               \/ (lsDocs' = lsDocs /\ lsFiltered' = lsFiltered /\ lsError' = lsDeleteError)]_vars

\* In the sales list one sale was deleted after the confirmation, the delete
\* of another failed and left it on the list, and the last dialog was
\* cancelled: two of the three sales are listed, with the error message.
C27_Witness ==
    /\ screen = "salesList" /\ ~lsLoading /\ ~lsFilterDue
    /\ Len(lsDocs) = 2 /\ lsFiltered = lsDocs
    /\ lsDocs[1]._id = <<"s", "2">>
    /\ lsError = "Failed to delete sale. Please try again."
    /\ lsAnswer = "Cancel"
    /\ lsAlert = None /\ lsCalls = <<>>

\* A document of the full list passes the current search query.
lsPasses(doc) ==
    lsSearchQuery = <<>> \/ lsMatches(doc, toLowerCase(lsSearchQuery))

C29_LeavesLoading ==
    /\ screen = "sale" => <>(~nsLoading)
    /\ screen = "purchase" => <>(~epLoading)
    /\ screen \in dtDetailScreens => <>(~dtLoading)

\* C29 for the routes that have an id, and for the two forms: these leave
\* loading, with the error message set when the fetch was rejected.
C29_LeavesLoadingWithId ==
    /\ screen = "sale" => <>(~nsLoading)
    /\ screen = "purchase" => <>(~epLoading /\ (epId = None => epError # None))
    /\ (screen \in dtDetailScreens /\ dtId # None) =>
          <>(~dtLoading /\ (dtDoc = NoItem => dtError # None))

\* A detail screen whose route has no id, after its fetch effect has run:
\* loading is still true, no error is set and no request is in flight.
C29_StuckLoading ==
    /\ screen \in dtDetailScreens /\ dtId = None
    /\ dtFetch = "returned"
    /\ dtLoading /\ dtError = None

----------------------------------------------------------------------------
(* Specifications *)

\* The new-sale form alone, and the edit-purchase form alone.
SaleInit ==
    /\ screen = "sale" /\ nsInit
    /\ epInit /\ epId = "p1" /\ eiInit /\ eiId = "i1" /\ lsInit /\ dtInit /\ dtId = "d1"
SaleSpec == SaleInit /\ [][nsNext]_vars

PurchaseInit ==
    /\ screen = "purchase" /\ epInit
    /\ nsInit /\ eiInit /\ eiId = "i1" /\ lsInit /\ dtInit /\ dtId = "d1"
PurchaseSpec == PurchaseInit /\ [][epNext]_vars

\* The edit-item form alone.
ItemInit ==
    /\ screen = "item" /\ eiInit
    /\ nsInit /\ epInit /\ epId = "p1" /\ lsInit /\ dtInit /\ dtId = "d1"
ItemSpec == ItemInit /\ [][eiNext]_vars

\* A list screen alone: the sales list, the purchases list or the inventory list.
ListInit ==
    /\ screen \in lsListScreens /\ lsInit
    /\ nsInit /\ epInit /\ epId = "p1" /\ eiInit /\ eiId = "i1" /\ dtInit /\ dtId = "d1"
ListSpec == ListInit /\ [][lsNext]_vars

\* A detail screen alone: the sale, the purchase or the inventory item.
DetailInit ==
    /\ screen \in dtDetailScreens /\ dtInit
    /\ nsInit /\ epInit /\ epId = "p1" /\ eiInit /\ eiId = "i1" /\ lsInit
DetailSpec == DetailInit /\ [][dtNext]_vars

\* One of the screens is mounted; the others stay as constructed.
Init == SaleInit \/ PurchaseInit \/ ItemInit \/ ListInit \/ DetailInit

Next == nsNext \/ epNext \/ eiNext \/ lsNext \/ dtNext

Spec == Init /\ [][Next]_vars

\* The loading phase of the screens that load their data when they are
\* mounted: the new-sale form, the edit-purchase form and the detail screens.
\* While a form shows the loading indicator none of its handlers can run, so
\* only its effects and the completion of its fetch are steps here.  React
\* runs an effect that is due, and a request that was sent is answered or
\* fails: these steps are taken when they stay possible.
nsLoadNext ==
    \/ nsRecalculateTotals
    \/ nsFetchItemsResolved
    \/ nsFetchItemsRejected

epLoadNext ==
    \/ epFetchEffect
    \/ epRecalculateTotals
    \/ epUpdateTotalCost
    \/ \E itemsData \in epCatalogs, purchaseData \in BackendPurchases :
          epFetchDataResolved(itemsData, purchaseData)
    \/ epFetchDataRejected

dtFetchSettled == dtFetchResolved(dtBackendDoc(dtId)) \/ dtFetchRejected

LoadInit == SaleInit \/ PurchaseInit \/ DetailInit

LoadNext == nsLoadNext \/ epLoadNext \/ dtNext

LoadFairness ==
    /\ WF_vars(nsLoadNext)
    /\ WF_vars(epLoadNext)
    /\ WF_vars(dtFetchEffect)
    /\ WF_vars(dtFetchSettled)

LoadSpec == LoadInit /\ [][LoadNext]_vars /\ LoadFairness

====
